---- MODULE Spec2Model ----
(***************************************************************************)
(* A model of the RFC 3986 URI parser, validator and serializer of the     *)
(* package uri (src/uri.go, src/ip.go, src/dns.go and the decoding helpers *)
(* kept in src/builder_test.go).                                           *)
(*                                                                         *)
(* A Go string is a sequence of bytes (0..255); Go's zero-based half-open  *)
(* slices s[a:b] are SubSeq(s, a+1, b).  An error value is the set of the  *)
(* sentinels errors.Is matches on it: nil is {}, an error built with       *)
(* fmt.Errorf or errors.New alone is {"detail"}, errors.Join is union.     *)
(* A run-time panic (index or slice out of range) is the value Panic; it   *)
(* travels up the same return paths as an error.                           *)
(***************************************************************************)
EXTENDS Integers, Sequences, FiniteSets, TLC

\* ------------------------------------------------------------------------
\* Text helpers: literals of the model are written as tuples of
\* one-character strings and converted to bytes.
\* ------------------------------------------------------------------------

Printable ==
    << " ", "!", "dquote", "#", "$", "%", "&", "'", "(", ")", "*", "+", ",", "-", ".", "/",
       "0", "1", "2", "3", "4", "5", "6", "7", "8", "9", ":", ";", "<", "=", ">", "?",
       "@", "A", "B", "C", "D", "E", "F", "G", "H", "I", "J", "K", "L", "M", "N", "O",
       "P", "Q", "R", "S", "T", "U", "V", "W", "X", "Y", "Z", "[", "backslash", "]", "^", "_",
       "backtick", "a", "b", "c", "d", "e", "f", "g", "h", "i", "j", "k", "l", "m", "n", "o",
       "p", "q", "r", "s", "t", "u", "v", "w", "x", "y", "z", "{", "|", "}", "~" >>

Ord(c) == 31 + CHOOSE i \in 1..Len(Printable) : Printable[i] = c

B(t) == [i \in 1..Len(t) |-> Ord(t[i])]

Repeat(s, n) == [i \in 1..(n * Len(s)) |-> s[((i - 1) % Len(s)) + 1]]

\* s[a:b], s[a:] and s[:b] of Go, for indexes already known to be in range
Slice(s, a, b) == SubSeq(s, a + 1, b)
SliceFrom(s, a) == SubSeq(s, a + 1, Len(s))
SliceTo(s, b) == SubSeq(s, 1, b)
\* the run-time check Go makes on s[a:b]
SliceOK(s, a, b) == 0 <= a /\ a <= b /\ b <= Len(s)
\* s[i] of Go (zero-based)
At(s, i) == s[i + 1]

\* strings.IndexByte: zero-based position of the first b in s, or -1
IndexByte(s, b) ==
    IF \A i \in 1..Len(s) : s[i] # b THEN -1
    ELSE (CHOOSE i \in 1..Len(s) : s[i] = b /\ \A j \in 1..(i - 1) : s[j] # b) - 1

HasPrefix(s, p) == Len(s) >= Len(p) /\ SubSeq(s, 1, Len(p)) = p

\* ------------------------------------------------------------------------
\* Errors
\* ------------------------------------------------------------------------

ErrNoSchemeFound == "ErrNoSchemeFound"
ErrInvalidURI == "ErrInvalidURI"
ErrInvalidCharacter == "ErrInvalidCharacter"
ErrInvalidScheme == "ErrInvalidScheme"
ErrInvalidQuery == "ErrInvalidQuery"
ErrInvalidFragment == "ErrInvalidFragment"
ErrInvalidPath == "ErrInvalidPath"
ErrInvalidHost == "ErrInvalidHost"
ErrInvalidPort == "ErrInvalidPort"
ErrInvalidUserInfo == "ErrInvalidUserInfo"
ErrMissingHost == "ErrMissingHost"
ErrInvalidHostAddress == "ErrInvalidHostAddress"
ErrInvalidRegisteredName == "ErrInvalidRegisteredName"
ErrInvalidDNSName == "ErrInvalidDNSName"
ErrInvalidEscaping == "ErrInvalidEscaping"

Sentinels ==
    { ErrNoSchemeFound, ErrInvalidURI, ErrInvalidCharacter, ErrInvalidScheme,
      ErrInvalidQuery, ErrInvalidFragment, ErrInvalidPath, ErrInvalidHost,
      ErrInvalidPort, ErrInvalidUserInfo, ErrMissingHost, ErrInvalidHostAddress,
      ErrInvalidRegisteredName, ErrInvalidDNSName, ErrInvalidEscaping }

Nil == {}
Detail == {"detail"}
Panic == {"PANIC"}

\* errors.Join(sentinel, cause)
errorsJoin(sentinel, cause) == {sentinel} \cup cause

\* errors.Is(err, sentinel)
ErrorsIs(err, sentinel) == sentinel \in err

Panicked(err) == "PANIC" \in err

\* ------------------------------------------------------------------------
\* Character and string literals (src/uri.go:71-89)
\* ------------------------------------------------------------------------

colonMark == 58
questionMark == 63
fragmentMark == 35
percentMark == 37
atHost == 64
slashMark == 47
openingBracketMark == 91
closingBracketMark == 93
dotSeparator == 46
authorityPrefix == <<47, 47>>

maxSegmentLength == 63
maxDomainLength == 255

pcharExtraRunes == {colonMark, atHost}
queryOrFragmentExtraRunes == pcharExtraRunes \cup {slashMark, questionMark}
userInfoExtraRunes == pcharExtraRunes \cup {colonMark}

\* ------------------------------------------------------------------------
\* Standard library: unicode classes and UTF-8 decoding
\* ------------------------------------------------------------------------

RuneError == 65533

\* unicode.IsLetter, exact for the Basic Latin and Latin-1 blocks and for the
\* further blocks the inputs of this model draw runes from (Latin Extended,
\* IPA and modifier letters up to U+02C1, CJK Extension A, CJK Unified
\* Ideographs); false elsewhere.
IsLetter(r) ==
    \/ (65 <= r /\ r <= 90)
    \/ (97 <= r /\ r <= 122)
    \/ r \in {170, 181, 186}
    \/ (192 <= r /\ r <= 214)
    \/ (216 <= r /\ r <= 246)
    \/ (248 <= r /\ r <= 705)
    \/ (13312 <= r /\ r <= 19903)
    \/ (19968 <= r /\ r <= 40959)

\* unicode.IsDigit (category Nd): ASCII digits and the Arabic-Indic digits.
IsDigit(r) ==
    \/ (48 <= r /\ r <= 57)
    \/ (1632 <= r /\ r <= 1641)

IsCont(b) == 128 <= b /\ b <= 191

\* the range utf8 accepts for the second byte of a sequence led by b0
AcceptLo(b0) == IF b0 = 224 THEN 160 ELSE IF b0 = 240 THEN 144 ELSE 128
AcceptHi(b0) == IF b0 = 237 THEN 159 ELSE IF b0 = 244 THEN 143 ELSE 191

\* the value bound by a singleton set: Only({ e(v) : v \in {x} }) is e(x)
Only(S) == CHOOSE v \in S : TRUE

\* what utf8 returns on an invalid encoding
InvalidRune == [r |-> RuneError, size |-> 1]

\* the width the leading byte b0 of a multi-byte sequence announces
RuneLen(b0) == IF b0 < 224 THEN 2 ELSE IF b0 < 240 THEN 3 ELSE 4

\* utf8.DecodeRuneInString / utf8.DecodeRune: the first rune of s and its
\* width in bytes; (RuneError, 0) on empty input, (RuneError, 1) on an
\* invalid encoding.
DecodeRune(s) ==
    IF Len(s) = 0 THEN [r |-> RuneError, size |-> 0]
    ELSE IF s[1] < 128 THEN [r |-> s[1], size |-> 1]
    ELSE IF s[1] < 194 \/ s[1] > 244 THEN InvalidRune
    ELSE IF Len(s) < RuneLen(s[1]) THEN InvalidRune
    ELSE IF s[2] < AcceptLo(s[1]) \/ s[2] > AcceptHi(s[1]) THEN InvalidRune
    ELSE IF RuneLen(s[1]) = 2 THEN [r |-> (s[1] % 32) * 64 + (s[2] % 64), size |-> 2]
    ELSE IF ~IsCont(s[3]) THEN InvalidRune
    ELSE IF RuneLen(s[1]) = 3
         THEN [r |-> (s[1] % 16) * 4096 + (s[2] % 64) * 64 + (s[3] % 64), size |-> 3]
    ELSE IF ~IsCont(s[4]) THEN InvalidRune
    ELSE [r |-> (s[1] % 8) * 262144 + (s[2] % 64) * 4096 + (s[3] % 64) * 64 + (s[4] % 64),
          size |-> 4]

\* ------------------------------------------------------------------------
\* Percent-decoding and character classes (decoding helpers)
\* ------------------------------------------------------------------------

isDigit(r) == r >= 48 /\ r <= 57

isNotDigit(r) == r < 48 \/ r > 57

isHex(c) ==
    \/ isDigit(c)
    \/ (97 <= c /\ c <= 102)
    \/ (65 <= c /\ c <= 70)

unhex(c) ==
    IF 48 <= c /\ c <= 57 THEN c - 48
    ELSE IF 97 <= c /\ c <= 102 THEN c - 97 + 10
    ELSE IF 65 <= c /\ c <= 70 THEN c - 65 + 10
    ELSE 0

RECURSIVE Runes(_)
\* the runes a range loop over s sees (an invalid byte is seen as RuneError)
Runes(s) ==
    IF Len(s) = 0 THEN <<>>
    ELSE Only({ <<d.r>> \o Runes(SliceFrom(s, d.size)) : d \in {DecodeRune(s)} })

\* isNumerical: strings.IndexFunc(input, isNotDigit) == -1
isNumerical(input) ==
    Only({ \A i \in 1..Len(rs) : ~isNotDigit(rs[i]) : rs \in {Runes(input)} })

\* unescapeSequence: the byte written by two hex digits
unescapeSequence(escapeSequence) ==
    IF Len(escapeSequence) < 2 THEN [b |-> 0, err |-> Detail]
    ELSE IF ~isHex(At(escapeSequence, 0)) \/ ~isHex(At(escapeSequence, 1))
         THEN [b |-> 0, err |-> Detail]
    ELSE [b |-> (unhex(At(escapeSequence, 0)) * 16 + unhex(At(escapeSequence, 1))) % 256,
          err |-> Nil]

\* what unescapePercentEncoding returns on a failed decoding: the rune r
\* (zero or RuneError), nothing consumed and an error
EscapeFailed(r) == [r |-> r, size |-> 0, err |-> Detail]

\* the tail of unescapePercentEncoding without the test of the rune decoded
DecodeCodePoint_unchecked(codePoint, offset) ==
    Only({ [r |-> d.r, size |-> offset, err |-> Nil] : d \in {DecodeRune(codePoint)} })

\* the tail of unescapePercentEncoding: utf8.DecodeRune on the code point
DecodeCodePoint(codePoint, offset) ==
    Only({ IF d.r = RuneError THEN EscapeFailed(RuneError)
           ELSE [r |-> d.r, size |-> offset, err |-> Nil]
           : d \in {DecodeRune(codePoint)} })

\* one more "%HH" of a multi-byte sequence, read at s[offset]; r is the rune
\* unescapePercentEncoding returns when this fails
NextEscaped(s, offset) ==
    IF offset >= Len(s) THEN [b |-> 0, err |-> Detail, r |-> 0]
    ELSE IF At(s, offset) # percentMark THEN [b |-> 0, err |-> Detail, r |-> 0]
    ELSE Only({ [b |-> e.b, err |-> e.err, r |-> RuneError]
                : e \in {unescapeSequence(SliceFrom(s, offset + 1))} })

\* the number of escaped bytes the first byte b0 of a code point calls for
CodePointLength(b0) ==
    IF b0 < 192 THEN 1 ELSE IF b0 < 224 THEN 2 ELSE IF b0 < 240 THEN 3 ELSE 4

RECURSIVE unescapeFollowing(_, _, _)
\* the escaped bytes after the first: codePoint holds the bytes read so far
\* and offset is where the next "%HH" is expected in s
unescapeFollowing(s, offset, codePoint) ==
    IF Len(codePoint) = CodePointLength(codePoint[1])
    THEN DecodeCodePoint(codePoint, offset)
    ELSE Only({ IF e.err # Nil THEN EscapeFailed(e.r)
                ELSE unescapeFollowing(s, offset + 3, Append(codePoint, e.b))
                : e \in {NextEscaped(s, offset)} })

\* unescapePercentEncoding: s is the text after a '%'; returns the decoded
\* rune and the number of bytes of s consumed
unescapePercentEncoding(s) ==
    Only({ IF e.err # Nil THEN EscapeFailed(RuneError)
           ELSE unescapeFollowing(s, 2, <<e.b>>)
           : e \in {unescapeSequence(s)} })

\* the unreserved and sub-delims characters of RFC 3986
IsUnreservedOrSubDelim(r) ==
    \/ IsLetter(r)
    \/ IsDigit(r)
    \/ r \in {45, 46, 95, 126}
    \/ r \in {33, 36, 38, 39, 40, 41, 42, 43, 44, 59, 61}

\* the loop of validateUnreservedWithExtra is modelled by its state, the byte
\* offset i and the error returned (Nil as long as the loop goes on)
UnreservedAt(i) == [i |-> i, err |-> Nil]
UnreservedFailed(i, err) == [i |-> i, err |-> err]

\* the end of an iteration on a percent-escape: e is what was decoded at
\* byte offset j of s
validateEscaped(j, e) ==
    IF e.err # Nil THEN UnreservedFailed(j, errorsJoin(ErrInvalidEscaping, e.err))
    ELSE UnreservedAt(j + e.size)

\* the percent-escape met at s[j-1]: decoded, then the loop goes on after it
validateEscapeAt(s, j) ==
    IF j >= Len(s) THEN UnreservedFailed(j, errorsJoin(ErrInvalidEscaping, Detail))
    ELSE validateEscaped(j, unescapePercentEncoding(SliceFrom(s, j)))

\* one iteration of the loop: d is the rune decoded at byte offset i of s
validateRuneAt(s, acceptedRunes, i, d) ==
    IF d.r = RuneError THEN UnreservedFailed(i, errorsJoin(ErrInvalidEscaping, Detail))
    ELSE IF d.r = percentMark THEN validateEscapeAt(s, i + d.size)
    ELSE IF ~IsUnreservedOrSubDelim(d.r) /\ d.r \notin acceptedRunes
         THEN UnreservedFailed(i, Detail)
    ELSE UnreservedAt(i + d.size)

\* one iteration of the loop from the state st; the loop has ended when an
\* error was returned or the offset is past the end of s
validateUnreservedStep(s, acceptedRunes, st) ==
    IF st.err # Nil \/ st.i >= Len(s) THEN st
    ELSE validateRuneAt(s, acceptedRunes, st.i, DecodeRune(SliceFrom(s, st.i)))

RECURSIVE validateUnreservedFrom(_, _, _, _)
\* n iterations of the loop from the state st, run as two halves
validateUnreservedFrom(s, acceptedRunes, st, n) ==
    IF n <= 1 THEN validateUnreservedStep(s, acceptedRunes, st)
    ELSE Only({ validateUnreservedFrom(s, acceptedRunes, half, n - (n \div 2))
                : half \in {validateUnreservedFrom(s, acceptedRunes, st, n \div 2)} })

\* validateUnreservedWithExtra: every rune of s is unreserved, a sub-delim,
\* a valid percent-escape or one of acceptedRunes; an iteration consumes at
\* least one byte, so that the loop ends within Len(s) iterations
validateUnreservedWithExtra(s, acceptedRunes) ==
    validateUnreservedFrom(s, acceptedRunes, UnreservedAt(0), Len(s)).err

\* ------------------------------------------------------------------------
\* IP literals (src/ip.go)
\* ------------------------------------------------------------------------

\* the error validateIPv4 returns
IPv4Error == errorsJoin(ErrInvalidHostAddress, Detail)

RECURSIVE validateIPv4Loop(_, _, _, _, _)
\* the loop of validateIPv4 at byte i; partNum and digitNum are uint8 and
\* currentPart is the [3]byte buffer, never cleared between octets
validateIPv4Loop(host, i, partNum, digitNum, currentPart) ==
    IF i >= Len(host)
    THEN IF partNum < 3 THEN IPv4Error ELSE Nil
    ELSE IF isDigit(At(host, i))
         THEN IF digitNum = 0 /\ At(host, i) > 50 THEN IPv4Error
              ELSE IF digitNum = 1 /\ currentPart[1] = 50 /\ At(host, i) > 53 THEN IPv4Error
              ELSE IF /\ digitNum = 2
                      /\ currentPart[1] = 50
                      /\ currentPart[2] = 53
                      /\ At(host, i) > 53
                   THEN IPv4Error
              ELSE IF digitNum > 2 THEN IPv4Error
              ELSE validateIPv4Loop(host, i + 1, partNum, (digitNum + 1) % 256,
                                    [currentPart EXCEPT ![digitNum + 1] = At(host, i)])
    ELSE IF At(host, i) = dotSeparator
         THEN IF digitNum = 0 THEN IPv4Error
              ELSE IF digitNum > 1 /\ currentPart[1] = 48 THEN IPv4Error
              ELSE IF (partNum + 1) % 256 > 3 THEN IPv4Error
              ELSE validateIPv4Loop(host, i + 1, (partNum + 1) % 256, 0, currentPart)
    ELSE IPv4Error

validateIPv4(host) == validateIPv4Loop(host, 0, 0, 0, <<0, 0, 0>>)

RECURSIVE SplitOn(_, _)
\* the fields of s between the separators sep (strings.Split)
SplitOn(s, sep) ==
    Only({ IF k < 0 THEN <<s>>
           ELSE <<SliceTo(s, k)>> \o SplitOn(SliceFrom(s, k + 1), sep)
           : k \in {IndexByte(s, sep)} })

RECURSIVE DecimalValue(_)
DecimalValue(f) ==
    IF Len(f) = 0 THEN 0 ELSE DecimalValue(SliceTo(f, Len(f) - 1)) * 10 + (f[Len(f)] - 48)

\* one field of netip's parseIPv4Fields: a decimal of value 0..255 without
\* leading zero
IsIPv4Field(f) ==
    /\ Len(f) >= 1
    /\ Len(f) <= 3
    /\ \A j \in 1..Len(f) : isDigit(f[j])
    /\ (Len(f) > 1 => f[1] # 48)
    /\ DecimalValue(f) <= 255

\* netip's parseIPv4Fields: four fields
ParseIPv4OK(s) ==
    Only({ Len(fields) = 4 /\ \A k \in 1..4 : IsIPv4Field(fields[k])
           : fields \in {SplitOn(s, dotSeparator)} })

RECURSIVE HexRun(_)
\* number of leading hex digits of s
HexRun(s) == IF Len(s) = 0 \/ ~isHex(s[1]) THEN 0 ELSE 1 + HexRun(SliceFrom(s, 1))

\* netip's parseIPv6, after its loop: the whole text was used, and the "::"
\* stands for at least one group exactly when fewer than 16 bytes were read
ParseIPv6End(s, i, ellipsis) ==
    Len(s) = 0 /\ (IF i < 16 THEN ellipsis >= 0 ELSE ellipsis < 0)

RECURSIVE ParseIPv6Loop(_, _, _)
\* netip's parseIPv6 loop: s is the text left, i the bytes of address read,
\* ellipsis the position of "::" or -1; off is the length of the hex group
\* that s starts with
ParseIPv6Loop(s, i, ellipsis) ==
    Only({ IF off > 4 \/ off = 0 THEN FALSE
           ELSE IF off < Len(s) /\ At(s, off) = dotSeparator
                THEN /\ (ellipsis >= 0 \/ i = 12)
                     /\ i + 4 <= 16
                     /\ ParseIPv4OK(s)
                     /\ ParseIPv6End(<<>>, i + 4, ellipsis)
           ELSE IF Len(s) = off THEN ParseIPv6End(<<>>, i + 2, ellipsis)
           ELSE IF At(s, off) # colonMark \/ Len(s) = off + 1 THEN FALSE
           ELSE IF At(s, off + 1) = colonMark
                THEN IF ellipsis >= 0 THEN FALSE
                     ELSE IF Len(s) = off + 2 \/ i + 2 >= 16
                          THEN ParseIPv6End(SliceFrom(s, off + 2), i + 2, i + 2)
                     ELSE ParseIPv6Loop(SliceFrom(s, off + 2), i + 2, i + 2)
           ELSE IF i + 2 >= 16 THEN ParseIPv6End(SliceFrom(s, off + 1), i + 2, ellipsis)
           ELSE ParseIPv6Loop(SliceFrom(s, off + 1), i + 2, ellipsis)
           : off \in {HexRun(s)} })

ParseIPv6OK(s) ==
    IF Len(s) >= 2 /\ At(s, 0) = colonMark /\ At(s, 1) = colonMark
    THEN Len(s) = 2 \/ ParseIPv6Loop(SliceFrom(s, 2), 0, 0)
    ELSE ParseIPv6Loop(s, 0, -1)

RECURSIVE ParseAddrFrom(_, _)
ParseAddrFrom(s, i) ==
    IF i >= Len(s) THEN "err"
    ELSE IF At(s, i) = dotSeparator THEN (IF ParseIPv4OK(s) THEN "v4" ELSE "err")
    ELSE IF At(s, i) = colonMark THEN (IF ParseIPv6OK(s) THEN "v6" ELSE "err")
    ELSE IF At(s, i) = percentMark THEN "err"
    ELSE ParseAddrFrom(s, i + 1)

\* netip.ParseAddr on a text without zone: "v4", "v6" or "err"
ParseAddr(s) == ParseAddrFrom(s, 0)

\* the version tag of an IPvFuture address whose first dot is at dot: hex
\* digits, at least one, closed by the dot, and an address after it
validateIPvFutureAt(address, dot) ==
    IF \E k \in 1..(IF dot < 0 THEN Len(address) ELSE dot) : ~isHex(address[k]) THEN Detail
    ELSE IF dot <= 0 THEN Detail
    ELSE IF dot + 1 >= Len(address) THEN Detail
    ELSE validateUnreservedWithExtra(SliceFrom(address, dot + 1), userInfoExtraRunes)

\* validateIPvFuture: address is the bracketed text after its leading 'v'
validateIPvFuture(address) == validateIPvFutureAt(address, IndexByte(address, dotSeparator))

\* an error of the address wrapped as validateIPv6 returns it
HostAddressError(e) == IF e # Nil THEN errorsJoin(ErrInvalidHostAddress, e) ELSE Nil

\* the zone of an IPv6 address tested for "%25" only
validateZoneID_emptyAllowed(zoneID) ==
    IF zoneID = <<>> THEN Nil
    ELSE IF Len(zoneID) < 3 \/ At(zoneID, 1) # 50 \/ At(zoneID, 2) # 53
         THEN errorsJoin(ErrInvalidHostAddress, Detail)
    ELSE HostAddressError(validateUnreservedWithExtra(zoneID, {}))

\* the zone of an IPv6 address: "%25" and a percent-encoded identifier
validateZoneID(zoneID) ==
    IF zoneID = <<>> THEN Nil
    ELSE IF Len(zoneID) < 4 \/ At(zoneID, 1) # 50 \/ At(zoneID, 2) # 53
         THEN errorsJoin(ErrInvalidHostAddress, Detail)
    ELSE HostAddressError(validateUnreservedWithExtra(zoneID, {}))

\* validateIPv6 on an address whose first '%' is at idx
validateIPv6At(host, idx) ==
    IF idx = 0 THEN errorsJoin(ErrInvalidHostAddress, Detail)
    ELSE IF ParseAddr(IF idx > 0 THEN SliceTo(host, idx) ELSE host) # "v6"
         THEN errorsJoin(ErrInvalidHostAddress, Detail)
    ELSE validateZoneID(IF idx > 0 THEN SliceFrom(host, idx) ELSE <<>>)

\* validateIPv6: host is the text between the square brackets
validateIPv6(host) ==
    IF Len(host) = 0 THEN Panic
    ELSE IF At(host, 0) = 118 \/ At(host, 0) = 86
         THEN HostAddressError(validateIPvFuture(SliceFrom(host, 1)))
    ELSE validateIPv6At(host, IndexByte(host, percentMark))

\* ------------------------------------------------------------------------
\* DNS host names (src/dns.go)
\* ------------------------------------------------------------------------

DNSSchemes ==
    {
      B(<<"d", "n", "s">>), B(<<"d", "n", "t", "p">>),
      B(<<"f", "i", "n", "g", "e", "r">>), B(<<"f", "t", "p">>),
      B(<<"g", "i", "t">>), B(<<"h", "t", "t", "p">>),
      B(<<"h", "t", "t", "p", "s">>), B(<<"i", "m", "a", "p">>),
      B(<<"i", "r", "c">>), B(<<"j", "m", "s">>),
      B(<<"m", "a", "i", "l", "t", "o">>), B(<<"n", "f", "s">>),
      B(<<"n", "n", "t", "p">>), B(<<"n", "t", "p">>),
      B(<<"p", "o", "s", "t", "g", "r", "e", "s">>), B(<<"r", "e", "d", "i", "s">>),
      B(<<"r", "m", "i">>), B(<<"r", "t", "s", "p">>),
      B(<<"r", "s", "y", "n", "c">>), B(<<"s", "f", "t", "p">>),
      B(<<"s", "k", "y", "p", "e">>), B(<<"s", "m", "t", "p">>),
      B(<<"s", "n", "m", "p">>), B(<<"s", "o", "a", "p">>),
      B(<<"s", "s", "h">>), B(<<"s", "t", "e", "a", "m">>),
      B(<<"s", "v", "n">>), B(<<"t", "c", "p">>),
      B(<<"t", "e", "l", "n", "e", "t">>), B(<<"u", "d", "p">>),
      B(<<"v", "n", "c">>), B(<<"w", "a", "i", "s">>),
      B(<<"w", "s">>), B(<<"w", "s", "s">>)
    }

UsesDNSHostValidation(scheme) == scheme \in DNSSchemes

DNSError == errorsJoin(ErrInvalidDNSName, Detail)

\* what validateFirstRuneInSegment returns with the error e
FirstRuneFailed(e) == [r |-> RuneError, size |-> 0, err |-> e]

\* the end of validateFirstRuneInSegment: the rune r, read over offset bytes,
\* must be a letter
firstRuneIsLetter(r, offset) ==
    IF ~IsLetter(r) THEN FirstRuneFailed(DNSError)
    ELSE [r |-> r, size |-> offset, err |-> Nil]

\* the first rune of a label when it is percent-encoded; offset is after '%'
firstRuneEscaped(s, offset) ==
    IF offset >= Len(s) THEN FirstRuneFailed(errorsJoin(ErrInvalidEscaping, Detail))
    ELSE Only({ IF e.err # Nil
                THEN FirstRuneFailed(errorsJoin(ErrInvalidDNSName,
                                                errorsJoin(ErrInvalidEscaping, e.err)))
                ELSE firstRuneIsLetter(e.r, offset + e.size)
                : e \in {unescapePercentEncoding(SliceFrom(s, offset))} })

\* validateFirstRuneInSegment: the first rune of a label must be a letter
validateFirstRuneInSegment(s) ==
    Only({ IF d.r = RuneError THEN FirstRuneFailed(DNSError)
           ELSE IF d.r = dotSeparator THEN FirstRuneFailed(DNSError)
           ELSE IF d.r = percentMark THEN firstRuneEscaped(s, d.size)
           ELSE firstRuneIsLetter(d.r, d.size)
           : d \in {DecodeRune(s)} })

\* the loop of validateHostSegment is modelled by its state: the last rune
\* read, the offset after it (consumed), whether an iteration was made
\* (once), and, when done, the values that validateHostSegment returns
SegmentAt(offset, last, once) ==
    [last |-> last, consumed |-> offset, err |-> Nil, once |-> once, done |-> FALSE]
SegmentReturned(last, consumed, err) ==
    [last |-> last, consumed |-> consumed, err |-> err, once |-> TRUE, done |-> TRUE]

\* what validateHostSegment returns with the error e
SegmentFailed(e) == SegmentReturned(RuneError, 0, e)

\* one iteration of the loop once its rune r is known: offset is after r,
\* last is the rune before it
segmentRune(s, offset, last, r) ==
    IF r = dotSeparator
    THEN IF offset >= Len(s) THEN SegmentFailed(DNSError)
         ELSE IF ~IsLetter(last) /\ ~IsDigit(last) THEN SegmentFailed(DNSError)
         ELSE SegmentReturned(r, offset, Nil)
    ELSE IF offset > maxSegmentLength THEN SegmentFailed(DNSError)
    ELSE IF ~IsLetter(r) /\ ~IsDigit(r) /\ r # 45 THEN SegmentFailed(DNSError)
    ELSE SegmentAt(offset, r, TRUE)

\* one iteration of the loop on a percent-encoded rune: e is what was
\* decoded at offset, after the '%'
segmentRuneUnescaped(s, offset, last, e) ==
    IF e.err # Nil
    THEN SegmentFailed(errorsJoin(ErrInvalidDNSName, errorsJoin(ErrInvalidEscaping, e.err)))
    ELSE segmentRune(s, offset + e.size, last, e.r)

\* one iteration of the loop on a percent-encoded rune; offset is after '%'
segmentRuneEscaped(s, offset, last) ==
    IF offset >= Len(s)
    THEN SegmentFailed(errorsJoin(ErrInvalidDNSName, errorsJoin(ErrInvalidEscaping, Detail)))
    ELSE segmentRuneUnescaped(s, offset, last, unescapePercentEncoding(SliceFrom(s, offset)))

\* one iteration of the loop: d is the rune decoded at offset
segmentRuneDecoded(s, offset, last, d) ==
    IF d.r = RuneError THEN SegmentFailed(DNSError)
    ELSE IF d.r = percentMark THEN segmentRuneEscaped(s, offset + d.size, last)
    ELSE segmentRune(s, offset + d.size, last, d.r)

\* one iteration of the loop from the state st, or, at the end of s, the
\* check of the last rune and the return
validateHostSegmentStep(s, st) ==
    IF st.done THEN st
    ELSE IF st.consumed >= Len(s)
         THEN IF st.once /\ ~IsLetter(st.last) /\ ~IsDigit(st.last)
              THEN SegmentFailed(DNSError)
              ELSE SegmentReturned(st.last, st.consumed, Nil)
    ELSE segmentRuneDecoded(s, st.consumed, st.last, DecodeRune(SliceFrom(s, st.consumed)))

RECURSIVE validateHostSegmentLoop(_, _, _)
\* n iterations of the loop from the state st, run as two halves
validateHostSegmentLoop(s, st, n) ==
    IF n <= 1 THEN validateHostSegmentStep(s, st)
    ELSE Only({ validateHostSegmentLoop(s, half, n - (n \div 2))
                : half \in {validateHostSegmentLoop(s, st, n \div 2)} })

\* what validateHostSegment returns at the end st of its loop
SegmentResult(st) == [last |-> st.last, consumed |-> st.consumed, err |-> st.err]

\* validateHostSegment: one label of s, up to and including its closing
\* dot; an iteration consumes at least one byte, so that the loop has
\* returned within Len(s) + 1 iterations
validateHostSegment(s) ==
    Only({ IF f.err # Nil THEN SegmentResult(SegmentFailed(f.err))
           ELSE SegmentResult(validateHostSegmentLoop(s, SegmentAt(f.size, f.r, FALSE),
                                                      Len(s) + 1))
           : f \in {validateFirstRuneInSegment(s)} })

RECURSIVE validateDNSHostLoop(_, _)

\* one iteration of the loop of validateDNSHostForScheme: seg is what
\* validateHostSegment returned for host[offset:]
validateDNSHostSegment(host, offset, seg) ==
    IF seg.err # Nil THEN seg.err
    ELSE IF seg.last # dotSeparator THEN Nil
    ELSE validateDNSHostLoop(host, offset + seg.consumed)

\* the loop of validateDNSHostForScheme
validateDNSHostLoop(host, offset) ==
    IF offset >= Len(host) THEN Nil
    ELSE validateDNSHostSegment(host, offset, validateHostSegment(SliceFrom(host, offset)))

\* validateDNSHostForScheme without the limit on the length of the host
validateDNSHostForScheme_anyLength(host) ==
    IF Len(host) = 0 THEN DNSError
    ELSE validateDNSHostLoop(host, 0)

\* validateDNSHostForScheme: host is a DNS name of RFC 1035
validateDNSHostForScheme(host) ==
    IF Len(host) > maxDomainLength THEN DNSError
    ELSE IF Len(host) = 0 THEN DNSError
    ELSE validateDNSHostLoop(host, 0)

\* ------------------------------------------------------------------------
\* Component validators (src/uri.go)
\* ------------------------------------------------------------------------

NoIP == [isIPv4 |-> FALSE, isIPv6 |-> FALSE, isIPvFuture |-> FALSE]

\* the first error of two checks made in sequence
OrElse(first, second) == IF first # Nil THEN first ELSE second

\* the error cause wrapped with sentinel, when there is one
Wrapped(sentinel, cause) == IF cause # Nil THEN errorsJoin(sentinel, cause) ELSE Nil

\* validateScheme: scheme = ALPHA *( ALPHA / DIGIT / "+" / "-" / "." )
validateScheme(scheme) ==
    IF Len(scheme) < 2 THEN {ErrInvalidScheme}
    ELSE Only({ IF ~IsLetter(rs[1]) THEN {ErrInvalidScheme}
                ELSE IF \E i \in 2..Len(rs) :
                            ~IsLetter(rs[i]) /\ ~IsDigit(rs[i]) /\ rs[i] \notin {43, 45, 46}
                     THEN {ErrInvalidScheme}
                ELSE Nil
                : rs \in {Runes(scheme)} })

validateQuery(query) ==
    Wrapped(ErrInvalidQuery, validateUnreservedWithExtra(query, queryOrFragmentExtraRunes))

validateFragment(fragment) ==
    Wrapped(ErrInvalidFragment, validateUnreservedWithExtra(fragment, queryOrFragmentExtraRunes))

RECURSIVE validateSegments(_, _)
\* the segment loop of validatePath: the first invalid non-empty segment
validateSegments(segments, k) ==
    IF k > Len(segments) THEN Nil
    ELSE IF Len(segments[k]) = 0 THEN validateSegments(segments, k + 1)
    ELSE Only({ IF e # Nil THEN errorsJoin(ErrInvalidPath, e)
                ELSE validateSegments(segments, k + 1)
                : e \in {validateUnreservedWithExtra(segments[k], pcharExtraRunes)} })

\* validatePath without the rule on a leading "//"
validatePath_segmentsOnly(a, path) ==
    validateSegments(SplitOn(path, slashMark), 1)

\* validatePath, called on a non-empty path of the authority a
validatePath(a, path) ==
    IF /\ a.host = <<>>
       /\ a.port = <<>>
       /\ Len(path) >= 2
       /\ At(path, 0) = slashMark
       /\ At(path, 1) = slashMark
    THEN errorsJoin(ErrInvalidPath, Detail)
    ELSE validateSegments(SplitOn(path, slashMark), 1)

RECURSIVE validateHostForScheme(_, _)
\* validateHostForScheme: DNS name rules for the schemes that use them, then
\* the registered name rules, for each of the schemes given
validateHostForScheme(host, schemes) ==
    IF Len(schemes) = 0 THEN Nil
    ELSE Only({ IF e # Nil THEN e ELSE validateHostForScheme(host, SliceFrom(schemes, 1))
                : e \in { OrElse(IF UsesDNSHostValidation(schemes[1])
                                 THEN validateDNSHostForScheme(host)
                                 ELSE Nil,
                                 Wrapped(ErrInvalidRegisteredName,
                                         validateUnreservedWithExtra(host, {}))) } })

\* the ip types validateHost finds
IPv4Host == [isIPv4 |-> TRUE, isIPv6 |-> FALSE, isIPvFuture |-> FALSE]
IPv6Host == [isIPv4 |-> FALSE, isIPv6 |-> TRUE, isIPvFuture |-> FALSE]
IPvFutureHost == [isIPv4 |-> FALSE, isIPv6 |-> TRUE, isIPvFuture |-> TRUE]

\* validateHost on a host between square brackets
validateBracketedHost(host) ==
    IF Len(host) = 0 THEN [ip |-> NoIP, err |-> Panic]
    ELSE IF At(host, 0) = 118 \/ At(host, 0) = 86
         THEN Only({ IF e # Nil THEN [ip |-> NoIP, err |-> errorsJoin(ErrInvalidHostAddress, e)]
                     ELSE [ip |-> IPvFutureHost, err |-> Nil]
                     : e \in {validateIPvFuture(SliceFrom(host, 1))} })
    ELSE [ip |-> IPv6Host, err |-> validateIPv6(host)]

\* validateHost: an IP literal, a DNS name or a registered name
validateHost(host, isIPv6, schemes) ==
    IF isIPv6 THEN validateBracketedHost(host)
    ELSE Only({ IF Panicked(e4) THEN [ip |-> NoIP, err |-> e4]
                ELSE IF e4 = Nil THEN [ip |-> IPv4Host, err |-> Nil]
                ELSE [ip |-> NoIP,
                      err |-> Wrapped(ErrInvalidHost, validateHostForScheme(host, schemes))]
                : e4 \in {validateIPv4(host)} })

\* validatePort: port = *DIGIT, and a port needs a host
\* validatePort reporting a non-numerical port with a plain error
validatePort_plainError(port, host) ==
    IF ~isNumerical(port) THEN Detail
    ELSE IF host = <<>> THEN errorsJoin(ErrMissingHost, Detail)
    ELSE Nil

validatePort(port, host) ==
    IF ~isNumerical(port) THEN {ErrInvalidPort}
    ELSE IF host = <<>> THEN errorsJoin(ErrMissingHost, Detail)
    ELSE Nil

validateUserInfo(userinfo) ==
    Wrapped(ErrInvalidUserInfo, validateUnreservedWithExtra(userinfo, userInfoExtraRunes))

\* the end of authorityInfo.validate testing the port only next to a host
validatePortAndUserInfo_portNextToHost(a) ==
    OrElse(IF a.port # <<>> /\ a.host # <<>> THEN validatePort(a.port, a.host) ELSE Nil,
           IF a.userinfo # <<>> THEN validateUserInfo(a.userinfo) ELSE Nil)

\* the end of authorityInfo.validate, once the host was found valid: the
\* port and the userinfo
validatePortAndUserInfo(a) ==
    OrElse(IF a.port # <<>> THEN validatePort(a.port, a.host) ELSE Nil,
           IF a.userinfo # <<>> THEN validateUserInfo(a.userinfo) ELSE Nil)

\* authorityInfo.validate after the path: host, port and userinfo
validateHostPortAndUserInfo(a, schemes) ==
    Only({ IF h.err # Nil THEN h ELSE [ip |-> h.ip, err |-> validatePortAndUserInfo(a)]
           : h \in { IF a.host # <<>> THEN validateHost(a.host, a.isIPv6, schemes)
                     ELSE [ip |-> NoIP, err |-> Nil] } })

\* authorityInfo.validate: path, host, port and userinfo, in this order
authorityValidate(a, schemes) ==
    Only({ IF ePath # Nil THEN [ip |-> NoIP, err |-> ePath]
           ELSE validateHostPortAndUserInfo(a, schemes)
           : ePath \in { IF a.path # <<>> THEN validatePath(a, a.path) ELSE Nil } })

\* the ipType of the authority replaced by ip
\* the ip type stored without its isIPv6 flag
WithIP_withoutIPv6(a, ip) ==
    [a EXCEPT !.isIPv4 = ip.isIPv4, !.isIPv6 = FALSE, !.isIPvFuture = ip.isIPvFuture]

WithIP(a, ip) ==
    [a EXCEPT !.isIPv4 = ip.isIPv4, !.isIPv6 = ip.isIPv6, !.isIPvFuture = ip.isIPvFuture]

\* the checks uri.Validate makes before the authority: scheme, query and
\* fragment, each when it is not empty
validateSchemeQueryFragment(u) ==
    OrElse(IF u.scheme # <<>> THEN validateScheme(u.scheme) ELSE Nil,
           OrElse(IF u.query # <<>> THEN validateQuery(u.query) ELSE Nil,
                  IF u.fragment # <<>> THEN validateFragment(u.fragment) ELSE Nil))

\* the end of uri.Validate: the authority, when there is a hier-part
validateHierPart(u) ==
    IF u.hierPart = <<>> THEN [uri |-> u, err |-> Nil]
    ELSE Only({ IF v.err # Nil THEN [uri |-> u, err |-> v.err]
                ELSE [uri |-> [u EXCEPT !.authority = WithIP(u.authority, v.ip)], err |-> Nil]
                : v \in {authorityValidate(u.authority, <<u.scheme>>)} })

\* uri.Validate: returns the error and the URI as the call leaves it (the ip
\* type found is stored in the authority when the call succeeds)
Validate(u) ==
    Only({ IF e # Nil THEN [uri |-> u, err |-> e] ELSE validateHierPart(u)
           : e \in {validateSchemeQueryFragment(u)} })

\* authorityInfo.IsIP
IsIP(a) == a.isIPv4 \/ (a.isIPv6 /\ ~a.isIPvFuture)

\* ------------------------------------------------------------------------
\* Structural parser (src/uri.go)
\* ------------------------------------------------------------------------

ZeroAuthority ==
    [prefix |-> <<>>, userinfo |-> <<>>, host |-> <<>>, port |-> <<>>, path |-> <<>>,
     isIPv4 |-> FALSE, isIPv6 |-> FALSE, isIPvFuture |-> FALSE]

ZeroURI ==
    [scheme |-> <<>>, hierPart |-> <<>>, query |-> <<>>, fragment |-> <<>>,
     authority |-> ZeroAuthority]

\* the text after the first ':' of rawHost, if there is any
PortAfterColon(rawHost) ==
    Only({ IF colon >= 0 /\ colon + 1 < Len(rawHost) THEN SliceFrom(rawHost, colon + 1)
           ELSE <<>>
           : colon \in {IndexByte(rawHost, colonMark)} })

\* the authorityInfo with a prefix only next to a userinfo, a host or a port
PrefixedAuthority_whenNotEmpty(userinfo, host, port, path, isIPv6) ==
    [a |-> [prefix |-> IF userinfo = <<>> /\ host = <<>> /\ port = <<>>
                       THEN <<>> ELSE authorityPrefix,
            userinfo |-> userinfo, host |-> host,
            port |-> port, path |-> path,
            isIPv4 |-> FALSE, isIPv6 |-> isIPv6, isIPvFuture |-> FALSE],
     err |-> Nil]

\* the authorityInfo parseAuthority returns for a hier-part with a prefix
PrefixedAuthority(userinfo, host, port, path, isIPv6) ==
    [a |-> [prefix |-> authorityPrefix, userinfo |-> userinfo, host |-> host,
            port |-> port, path |-> path,
            isIPv4 |-> FALSE, isIPv6 |-> isIPv6, isIPvFuture |-> FALSE],
     err |-> Nil]

\* the end of parseAuthority: host is the text after the userinfo, bracket,
\* closingbracket and colon the positions of the first '[', ']' and ':' in it
parseHostAt(userinfo, host, path, bracket, closingbracket, colon) ==
    IF bracket >= 0
    THEN IF closingbracket > bracket + 1
         THEN IF ~SliceOK(host, bracket + 1, closingbracket)
                 \/ ~SliceOK(host, closingbracket + 1, Len(host))
              THEN [a |-> ZeroAuthority, err |-> Panic]
              ELSE PrefixedAuthority(userinfo, Slice(host, bracket + 1, closingbracket),
                                     PortAfterColon(SliceFrom(host, closingbracket + 1)),
                                     path, TRUE)
         ELSE [a |-> ZeroAuthority, err |-> errorsJoin(ErrInvalidHostAddress, Detail)]
    ELSE IF colon >= 0
         THEN PrefixedAuthority(userinfo, SliceTo(host, colon), PortAfterColon(host),
                                path, FALSE)
    ELSE PrefixedAuthority(userinfo, host, <<>>, path, FALSE)

\* parseAuthority on the host found after the userinfo
parseHost(userinfo, host, path) ==
    parseHostAt(userinfo, host, path,
                IndexByte(host, openingBracketMark),
                IndexByte(host, closingBracketMark),
                IndexByte(host, colonMark))

\* parseAuthority on the text before the path: the userinfo ends at the
\* first '@', when it is not the first character
parseUserInfo(hier, path) ==
    Only({ parseHost(IF at > 0 THEN SliceTo(hier, at) ELSE <<>>,
                     IF at > 0 /\ at + 1 < Len(hier) THEN SliceFrom(hier, at + 1) ELSE hier,
                     path)
           : at \in {IndexByte(hier, atHost)} })

\* parseAuthority, for a hier-part that starts with "//": hier is the text
\* after the prefix, and the path starts at its first '/'
parseHostPort(hier) ==
    Only({ parseUserInfo(IF slashEnd > -1 THEN SliceTo(hier, slashEnd) ELSE hier,
                         IF slashEnd > -1 /\ slashEnd < Len(hier)
                         THEN SliceFrom(hier, slashEnd)
                         ELSE <<>>)
           : slashEnd \in {IndexByte(hier, slashMark)} })

\* parseAuthority: splits a hier-part into prefix, userinfo, host, port, path
parseAuthority(hier) ==
    IF HasPrefix(hier, authorityPrefix)
    THEN parseHostPort(SliceFrom(hier, 2))
    ELSE [a |-> [ZeroAuthority EXCEPT !.path = hier], err |-> Nil]

\* what parse returns: the URI pointer (isNil when it is nil) and the error
Returned(u, err) == [isNil |-> FALSE, uri |-> u, err |-> err]
Failed(err) == [isNil |-> TRUE, uri |-> ZeroURI, err |-> err]

\* where parse stands before it returns: it failed with err, or it built the
\* uri that it validates next; nilOnError tells the branch that returns nil
\* when Validate fails
Built(u, nilOnError) == [failed |-> FALSE, err |-> Nil, uri |-> u, nilOnError |-> nilOnError]
NotBuilt(err) == [failed |-> TRUE, err |-> err, uri |-> ZeroURI, nilOnError |-> FALSE]

\* the return statements of parse: "return nil, err" before the URI is
\* built, "return u, u.Validate()" after it, and in the nilOnError branch
\* "if err = u.Validate(); err != nil { return nil, err }; return u, nil"
ReturnValidated(built) ==
    IF built.failed THEN Failed(built.err)
    ELSE Only({ IF v.err # Nil /\ built.nilOnError THEN Failed(v.err)
                ELSE Returned(v.uri, v.err)
                : v \in {Validate(built.uri)} })

\* the hier-part raw[from:to], parsed, then the URI built with it
WithHierPart(raw, from, to, scheme, query, fragment, nilOnError) ==
    IF ~SliceOK(raw, from, to) THEN NotBuilt(Panic)
    ELSE Only({ IF pa.err # Nil THEN NotBuilt(errorsJoin(ErrInvalidURI, pa.err))
                ELSE Built([scheme |-> scheme, hierPart |-> Slice(raw, from, to),
                            query |-> query, fragment |-> fragment, authority |-> pa.a],
                           nilOnError)
                : pa \in {parseAuthority(Slice(raw, from, to))} })

\* the fragment parse finds after the '#' at queryEnd
FragmentAfter(raw, queryEnd) ==
    IF queryEnd > 0 /\ queryEnd + 1 < Len(raw) THEN SliceFrom(raw, queryEnd + 1) ELSE <<>>

\* the query parse finds after the '?' at hierPartEnd
QueryAfter(raw, hierPartEnd, queryEnd) ==
    IF hierPartEnd + 1 < Len(raw) /\ queryEnd < 0 THEN SliceFrom(raw, hierPartEnd + 1)
    ELSE IF hierPartEnd + 1 < Len(raw) /\ hierPartEnd < queryEnd - 1
         THEN Slice(raw, hierPartEnd + 1, queryEnd)
    ELSE <<>>

\* parse, after the scheme was dealt with (src/uri.go:189-283)
parseRest(raw, scheme, schemeEnd, hierPartEnd, queryEnd) ==
    IF hierPartEnd = Len(raw) - 1 \/ (hierPartEnd < 0 /\ queryEnd < 0)
    THEN WithHierPart(raw, schemeEnd + 1, IF hierPartEnd < 0 THEN Len(raw) ELSE hierPartEnd,
                      scheme, <<>>, <<>>, FALSE)
    ELSE IF hierPartEnd > 0
    THEN WithHierPart(raw, schemeEnd + 1, hierPartEnd, scheme,
                      QueryAfter(raw, hierPartEnd, queryEnd),
                      FragmentAfter(raw, queryEnd), FALSE)
    ELSE IF queryEnd = Len(raw) - 1
    THEN WithHierPart(raw, schemeEnd + 1, queryEnd, scheme, <<>>, <<>>, TRUE)
    ELSE IF queryEnd > 0
    THEN WithHierPart(raw, schemeEnd + 1, queryEnd, scheme, <<>>,
                      FragmentAfter(raw, queryEnd), FALSE)
    ELSE Built([ZeroURI EXCEPT !.scheme = scheme], FALSE)

\* the structural checks with the one-character scheme tested first
structuralCheck_schemeFirst(schemeEnd, hierPartEnd, queryEnd) ==
    IF schemeEnd = 1 THEN errorsJoin(ErrInvalidScheme, Detail)
    ELSE IF schemeEnd = 0 \/ hierPartEnd = 0 \/ queryEnd = 0 THEN {ErrInvalidURI}
    ELSE IF hierPartEnd = 1 \/ queryEnd = 1 THEN {ErrInvalidURI}
    ELSE IF \/ (hierPartEnd > 0 /\ hierPartEnd < schemeEnd)
            \/ (queryEnd > 0 /\ queryEnd < schemeEnd)
         THEN {ErrInvalidURI}
    ELSE Nil

\* the checks parse makes on the positions of the first ':', '?' and '#'
\* (src/uri.go:137-157): the error returned, or Nil
structuralCheck(schemeEnd, hierPartEnd, queryEnd) ==
    IF schemeEnd = 0 \/ hierPartEnd = 0 \/ queryEnd = 0 THEN {ErrInvalidURI}
    ELSE IF schemeEnd = 1 THEN errorsJoin(ErrInvalidScheme, Detail)
    ELSE IF hierPartEnd = 1 \/ queryEnd = 1 THEN {ErrInvalidURI}
    ELSE IF \/ (hierPartEnd > 0 /\ hierPartEnd < schemeEnd)
            \/ (queryEnd > 0 /\ queryEnd < schemeEnd)
         THEN {ErrInvalidURI}
    ELSE Nil

\* the scheme switch of parse with the hier-part ended at the first '?',
\* wherever the first '#' is
parseScheme_endAtQuestion(raw, withURIReference, schemeEnd, hierPartEnd, queryEnd, hasScheme, isRelative) ==
    IF hasScheme /\ schemeEnd + 1 = Len(raw)
    THEN Built([ZeroURI EXCEPT !.scheme = SliceTo(raw, schemeEnd)], FALSE)
    ELSE IF ~hasScheme /\ ~withURIReference
    THEN NotBuilt(errorsJoin(ErrNoSchemeFound, Detail))
    ELSE parseRest(raw,
                   IF hasScheme THEN SliceTo(raw, schemeEnd) ELSE <<>>,
                   IF ~hasScheme /\ isRelative THEN -1 ELSE schemeEnd,
                   hierPartEnd,
                   queryEnd)

\* the scheme switch of parse (src/uri.go:159-189): hasScheme is its first
\* case, isRelative tells a text that starts with "//"
parseScheme(raw, withURIReference, schemeEnd, hierPartEnd, queryEnd, hasScheme, isRelative) ==
    IF hasScheme /\ schemeEnd + 1 = Len(raw)
    THEN Built([ZeroURI EXCEPT !.scheme = SliceTo(raw, schemeEnd)], FALSE)
    ELSE IF ~hasScheme /\ ~withURIReference
    THEN NotBuilt(errorsJoin(ErrNoSchemeFound, Detail))
    ELSE parseRest(raw,
                   IF hasScheme THEN SliceTo(raw, schemeEnd) ELSE <<>>,
                   IF ~hasScheme /\ isRelative THEN -1 ELSE schemeEnd,
                   IF queryEnd > 0 /\ queryEnd < hierPartEnd THEN queryEnd ELSE hierPartEnd,
                   queryEnd)

\* parse once the positions of the first ':', '?' and '#' are known, up to
\* the URI it builds
parseAt(raw, withURIReference, schemeEnd, hierPartEnd, queryEnd) ==
    Only({ IF e # Nil THEN NotBuilt(e)
           ELSE parseScheme(raw, withURIReference, schemeEnd, hierPartEnd, queryEnd,
                            schemeEnd > 0 /\ ~HasPrefix(raw, authorityPrefix),
                            HasPrefix(raw, authorityPrefix))
           : e \in {structuralCheck(schemeEnd, hierPartEnd, queryEnd)} })

\* parse: the structural checks, the scheme, the rest, then the validation
parse(raw, withURIReference) ==
    ReturnValidated(parseAt(raw, withURIReference,
                            IndexByte(raw, colonMark),
                            IndexByte(raw, questionMark),
                            IndexByte(raw, fragmentMark)))

\* Parse: a URI, the scheme is required
Parse(text) == parse(text, FALSE)

\* ParseReference requiring the scheme as Parse does
ParseReference_schemeRequired(text) == parse(text, FALSE)

\* ParseReference: a URI reference, the scheme is optional
ParseReference(text) == parse(text, TRUE)

\* ------------------------------------------------------------------------
\* Serializer (src/uri.go)
\* ------------------------------------------------------------------------

\* authorityInfo.String
AuthorityString(a) ==
    a.prefix \o a.userinfo
    \o (IF Len(a.userinfo) > 0 THEN <<atHost>> ELSE <<>>)
    \o (IF a.isIPv6 THEN <<openingBracketMark>> \o a.host \o <<closingBracketMark>> ELSE a.host)
    \o (IF Len(a.port) > 0 THEN <<colonMark>> ELSE <<>>)
    \o a.port \o a.path

\* uri.String
String(u) ==
    (IF Len(u.scheme) > 0 THEN u.scheme \o <<colonMark>> ELSE <<>>)
    \o AuthorityString(u.authority)
    \o (IF Len(u.query) > 0 THEN <<questionMark>> \o u.query ELSE <<>>)
    \o (IF Len(u.fragment) > 0 THEN <<fragmentMark>> \o u.fragment ELSE <<>>)

\* ------------------------------------------------------------------------
\* Inputs
\* ------------------------------------------------------------------------

\* longest input of the exhaustive set
MaxRawLen == 4
\* number of Validate() calls followed on one URI
MaxValidate == 2

\* the structural characters and one letter
StructureAlphabet == {colonMark, questionMark, fragmentMark, slashMark, 97}

RECURSIVE StringsUpTo(_, _)
\* every string over alphabet of length at most n
StringsUpTo(alphabet, n) ==
    IF n = 0 THEN {<<>>}
    ELSE LET shorter == StringsUpTo(alphabet, n - 1) IN
         shorter \cup {Append(t, c) : t \in {x \in shorter : Len(x) = n - 1}, c \in alphabet}

\* scheme parts of the inputs: none, DNS and other schemes, too short, digit first, non-ASCII letter
SchemePool ==
    {
      <<>>,
      B(<<"h", "t", "t", "p", ":">>),
      B(<<"f", "o", "o", ":">>),
      B(<<"x", ":">>),
      B(<<"1", "a", ":">>),
      B(<<"h">>) \o <<195, 169>> \o B(<<":">>),
      B(<<"a", "+", "b", ":">>)
    }

\* authority parts of the inputs
AuthorityPool ==
    {
      <<>>,
      B(<<"/", "/">>),
      B(<<"/", "/", "h", "o", "s", "t">>),
      B(<<"/", "/", "h", "o", "s", "t", ":">>),
      B(<<"/", "/", "h", "o", "s", "t", ":", "8", "0">>),
      B(<<"/", "/", ":", "8", "0">>),
      B(<<"/", "/", ":">>),
      B(<<"/", "/", ":", "x">>),
      B(<<"/", "/", "u", "@", ":", "8", "0">>),
      B(<<"/", "/", "u", "@", "h", "o", "s", "t">>),
      B(<<"/", "/", "u", ":", "p", "@", "h", "o", "s", "t", ":", "8", "0">>),
      B(<<"/", "/", "u", "s", "e", "r", "@">>),
      B(<<"/", "/", "[", ":", ":", "1", "]">>),
      B(<<"/", "/", "[", ":", ":", "1", "]", ":", "8", "0">>),
      B(<<"/", "/", "[", ":", ":", "1", "]", "x", ":", "8", "0">>),
      B(<<"/", "/", "a", "[", ":", ":", "1", "]">>),
      B(<<"/", "/", "[", "]">>),
      B(<<"/", "/", "[", ":", ":", "1">>),
      B(<<"/", "/", "[", "v", "1", ".", "a", "]">>),
      B(<<"/", "/", "[", "v", "1", ".", "]">>),
      B(<<"/", "/", "[", "f", "e", "8", "0", ":", ":", "1", "%", "2", "5", "e", "n", "0", "]">>),
      B(<<"/", "/", "[", "1", ".", "2", ".", "3", ".", "4", "]">>),
      B(<<"/", "/", "1", ".", "2", ".", "0", ".", "1">>),
      B(<<"/", "/", "9", ".", "9", ".", "9", ".", "9">>),
      B(<<"/", "/", "a", ".", "b">>),
      B(<<"/", "/", "a", "-">>),
      B(<<"/", "/", "h", "%", "4", "1">>),
      B(<<"/", "/", "h", "%", "4">>),
      B(<<"/", "/", "h">>) \o <<195, 169>>
    }

\* path parts of the inputs
PathPool ==
    {
      <<>>,
      B(<<"/">>),
      B(<<"/", "a">>),
      B(<<"/", "/", "a">>),
      B(<<"a">>),
      B(<<"/", "a", "/", "%">>)
    }

\* query parts of the inputs
QueryPool ==
    {
      <<>>,
      B(<<"?">>),
      B(<<"?", "q", "=", "1">>),
      B(<<"?", "a", "?", "b", ":">>),
      B(<<"?", "%", "z", "z">>)
    }

\* fragment parts of the inputs
FragmentPool ==
    {
      <<>>,
      B(<<"#">>),
      B(<<"#", "f">>),
      B(<<"#", "f", "?", "g">>),
      B(<<"#", "f", "#">>)
    }

\* inputs assembled from one part of each pool
AssembledInputs ==
    {s \o a \o p \o q \o f :
        s \in SchemePool, a \in AuthorityPool, p \in PathPool, q \in QueryPool, f \in FragmentPool}

Inputs == StringsUpTo(StructureAlphabet, MaxRawLen) \cup AssembledInputs

\* ------------------------------------------------------------------------
\* State machine: one input, parsed once, then observed
\* ------------------------------------------------------------------------

VARIABLES
    raw,        \* the input text
    called,     \* the entry point or function applied to raw, "none" before
    isNil,      \* the URI returned is nil
    u,          \* the URI returned (the object behind the pointer)
    err,        \* the error returned
    out,        \* the text returned by the last String() call, if any
    nValidate,  \* number of Validate() calls made on u
    verr,       \* the error returned by the last Validate() call
    usesDNS,    \* the boolean returned by UsesDNSHostValidation(raw)
    builder,    \* the Builder returned by u.Builder(): "nil" before, else
                \* the name of the object it points to
    reported,   \* what the URI reported when Builder() returned
    ret,        \* what the last call of a function that returns neither a
                \* URI nor an error alone returned
    accesses    \* for each goroutine sharing the URI, the fields its call
                \* read and wrote

vars == <<raw, called, isNil, u, err, out, nValidate, verr, usesDNS, builder,
          reported, ret, accesses>>

NoOutput == [set |-> FALSE, s |-> <<>>]

\* nothing returned yet
NoReturn == [set |-> FALSE]

\* number of goroutines that share one URI
MaxGoroutines == 2

Goroutines == 1..MaxGoroutines

\* no goroutine has called a method yet
NoAccesses == [g \in Goroutines |-> {}]

InitWith(inputs) ==
    /\ raw \in inputs
    /\ called = "none"
    /\ isNil = TRUE
    /\ u = ZeroURI
    /\ err = Nil
    /\ out = NoOutput
    /\ nValidate = 0
    /\ verr = Nil
    /\ usesDNS = FALSE
    /\ builder = "nil"
    /\ reported = ZeroURI
    /\ ret = NoReturn
    /\ accesses = NoAccesses

Init == InitWith(Inputs)

Call(name, res) ==
    /\ called = "none"
    /\ \E r \in {res} :
        /\ called' = name
        /\ isNil' = r.isNil
        /\ u' = r.uri
        /\ err' = r.err
    /\ UNCHANGED <<raw, out, nValidate, verr, usesDNS,
                 builder, reported,
                 ret, accesses>>

\* u, err := Parse(raw)
CallParse == Call("Parse", Parse(raw))

\* u, err := ParseReference(raw)
CallParseReference == Call("ParseReference", ParseReference(raw))

\* u.String() on the URI returned
CallString ==
    /\ called \in {"Parse", "ParseReference"}
    /\ ~isNil
    /\ out' = [set |-> TRUE, s |-> String(u)]
    /\ UNCHANGED <<raw, called, isNil, u, err, nValidate, verr, usesDNS,
                 builder, reported,
                 ret, accesses>>

\* u.Validate() on the URI returned
CallValidate ==
    /\ called \in {"Parse", "ParseReference"}
    /\ ~isNil
    /\ nValidate < MaxValidate
    /\ \E v \in {Validate(u)} :
        /\ u' = v.uri
        /\ verr' = v.err
    /\ nValidate' = nValidate + 1
    /\ UNCHANGED <<raw, called, isNil, err, out, usesDNS,
                 builder, reported,
                 ret, accesses>>

Next == CallParse \/ CallParseReference \/ CallString \/ CallValidate

Spec == Init /\ [][Next]_vars

\* ------------------------------------------------------------------------
\* Properties of Parse, ParseReference, String and Validate
\* ------------------------------------------------------------------------

\* an entry point has returned
Returns == called \in {"Parse", "ParseReference"}

\* the input was accepted
Accepted == Returns /\ err = Nil

\* C1: for every input an entry point accepts, String() of the URI returned
\* is the input, byte for byte (empty query, fragment or port, and bracketed
\* hosts included)
C1_RoundTrip == (Accepted /\ out.set) => out.s = raw

\* C2: whenever an entry point returns an error, the URI it returns is nil
C2_NilOnError == (Returns /\ err # Nil) => isNil

\* C3: the entry points never panic, and return either a URI with a nil
\* error or an error that matches one of the exported sentinels
C3_NoPanicAndSentinel ==
    Returns =>
        /\ ~Panicked(err)
        /\ \/ (err = Nil /\ ~isNil)
           \/ (\E sentinel \in Sentinels : ErrorsIs(err, sentinel))

\* an input with a bracketed host that is not an address: the error comes
\* from the address validator, under a sentinel
C3_Witness ==
    /\ called = "Parse"
    /\ ErrorsIs(err, ErrInvalidHostAddress)
    /\ ~ErrorsIs(err, ErrInvalidURI)
    /\ ~isNil
    /\ u.authority.host # <<>>

\* C4: an input Parse accepts is accepted by ParseReference with the same
\* components; the empty string is refused by Parse and accepted by
\* ParseReference
C4_ReferenceExtendsParse ==
    /\ (called = "Parse" /\ err = Nil /\ nValidate = 0) =>
            /\ ParseReference(raw).err = Nil
            /\ ~ParseReference(raw).isNil
            /\ ParseReference(raw).uri = u
    /\ (called = "Parse" /\ raw = <<>>) => err # Nil
    /\ (called = "ParseReference" /\ raw = <<>>) => (err = Nil /\ ~isNil)

\* the empty string has been accepted as a reference
C4_Witness == called = "ParseReference" /\ raw = <<>> /\ err = Nil /\ ~isNil

\* C5: Validate() on a URI that Parse accepted returns nil, however many
\* times it is called
C5_ValidateIdempotent ==
    (called = "Parse" /\ err = Nil /\ nValidate > 0) => verr = Nil

\* Validate() called MaxValidate times on an accepted URI whose host is a
\* bracketed IPv6 literal
C5_Witness ==
    /\ called = "Parse"
    /\ err = Nil
    /\ nValidate = MaxValidate
    /\ verr = Nil
    /\ u.authority.isIPv6
    /\ ~u.authority.isIPvFuture

\* positions of the first ':', '?' and '#' of the input
FirstColon == IndexByte(raw, colonMark)
FirstQuestion == IndexByte(raw, questionMark)
FirstFragment == IndexByte(raw, fragmentMark)

\* the sentinel the ordered structural checks call for, "" when they pass
StructuralSentinel ==
    IF FirstColon = 0 \/ FirstQuestion = 0 \/ FirstFragment = 0 THEN ErrInvalidURI
    ELSE IF FirstColon = 1 THEN ErrInvalidScheme
    ELSE IF FirstQuestion = 1 \/ FirstFragment = 1 THEN ErrInvalidURI
    ELSE IF \/ (FirstQuestion >= 0 /\ FirstQuestion < FirstColon)
            \/ (FirstFragment >= 0 /\ FirstFragment < FirstColon)
         THEN ErrInvalidURI
    ELSE ""

\* the input carries no scheme
WithoutScheme == FirstColon < 0 \/ HasPrefix(raw, authorityPrefix)

\* C6: the structural checks come first and in order: ErrInvalidURI when ':',
\* '?' or '#' is at position 0, else ErrInvalidScheme when ':' is at position
\* 1, else ErrInvalidURI when '?' or '#' is at position 1, else ErrInvalidURI
\* when a '?' or '#' precedes the ':'; only then does Parse, and never
\* ParseReference, return ErrNoSchemeFound for an input without scheme
C6_StructuralOrder ==
    Returns =>
        /\ StructuralSentinel # "" => (err \cap Sentinels = {StructuralSentinel})
        /\ (StructuralSentinel = "" /\ WithoutScheme /\ called = "Parse") =>
                ErrorsIs(err, ErrNoSchemeFound)
        /\ ErrorsIs(err, ErrNoSchemeFound) =>
                (called = "Parse" /\ StructuralSentinel = "" /\ WithoutScheme)

\* an input whose ':' is at position 1 and whose '?' is at position 0: the
\* first check wins
C6_Witness ==
    /\ Returns
    /\ FirstQuestion = 0
    /\ FirstColon = 1
    /\ err = {ErrInvalidURI}

\* an input whose '?' is past position 1 and precedes the ':'
C6_WitnessPrecedes ==
    /\ Returns
    /\ FirstFragment < 0
    /\ FirstQuestion > 1
    /\ FirstQuestion < FirstColon
    /\ err = {ErrInvalidURI}

\* ASCII letter, ASCII digit
IsASCIILetter(b) == (b >= 65 /\ b <= 90) \/ (b >= 97 /\ b <= 122)
IsASCIIDigit(b) == b >= 48 /\ b <= 57

\* scheme = ALPHA *( ALPHA / DIGIT / "+" / "-" / "." ), two characters at least
IsASCIIScheme(scheme) ==
    /\ Len(scheme) >= 2
    /\ IsASCIILetter(scheme[1])
    /\ \A i \in 2..Len(scheme) :
          \/ IsASCIILetter(scheme[i])
          \/ IsASCIIDigit(scheme[i])
          \/ scheme[i] \in {43, 45, 46}

\* C7: a scheme is accepted only if it has at least two characters, starts
\* with an ASCII letter and continues with ASCII letters, ASCII digits, '+',
\* '-' or '.'
C7_SchemeGrammar ==
    (Accepted /\ u.scheme # <<>>) => IsASCIIScheme(u.scheme)

\* ------------------------------------------------------------------------
\* validateIPv4 on its own: dotted texts, alone and as the host of a URI
\* ------------------------------------------------------------------------

\* largest number of dot-separated parts of the assembled hosts
MaxOctets == 5

\* texts of one part: valid octets, out of range, leading zero, empty
IPv4Octets ==
    {
      B(<<"0">>),
      B(<<"9">>),
      B(<<"2", "6">>),
      B(<<"2", "5", "5">>),
      B(<<"2", "5", "6">>),
      B(<<"0", "1">>),
      <<>>
    }

\* texts that are not made of digits and dots
IPv4Extra ==
    {
      B(<<"1", ".", "2", ".", "0", ".", "a">>),
      B(<<"1", ".", "2", ".", "0", ".", "%", "3", "1">>),
      B(<<"a", ".", "2", ".", "0", ".", "1">>),
      B(<<"1", ".", "2", ".", "0", ".", "1", "1", "1", "1">>),
      B(<<"1", "9", "2", ".", "1", "6", "8", ".", "0", ".", "1">>),
      B(<<"1", "2", "7", ".", "0", ".", "0", ".", "1">>),
      B(<<"1", ".", "2", ".", "3", ".", "4">>)
    }

RECURSIVE JoinDot(_)
\* the parts joined by '.'
JoinDot(parts) ==
    IF Len(parts) = 0 THEN <<>>
    ELSE IF Len(parts) = 1 THEN parts[1]
    ELSE parts[1] \o <<dotSeparator>> \o JoinDot(SliceFrom(parts, 1))

IPv4Inputs ==
    {JoinDot(parts) : parts \in UNION {[1..n -> IPv4Octets] : n \in 1..MaxOctets}}
    \cup IPv4Extra

\* schemes the host is parsed under: one with DNS host validation, one without
HostSchemes == {B(<<"h", "t", "t", "p">>), B(<<"f", "o", "o">>)}

InitIPv4 == InitWith(IPv4Inputs)

\* err := validateIPv4(raw)
CallValidateIPv4 ==
    /\ called = "none"
    /\ called' = "validateIPv4"
    /\ err' = validateIPv4(raw)
    /\ UNCHANGED <<raw, isNil, u, out, nValidate, verr, usesDNS,
                 builder, reported,
                 ret, accesses>>

\* u, err := Parse(scheme + "://" + raw)
CallParseHost ==
    /\ called = "none"
    /\ \E scheme \in HostSchemes :
          Call("Parse", Parse(scheme \o <<colonMark>> \o authorityPrefix \o raw))

NextIPv4 == CallValidateIPv4 \/ CallParseHost

SpecIPv4 == InitIPv4 /\ [][NextIPv4]_vars

RECURSIVE DecimalText(_)
\* the decimal text of a natural number
DecimalText(n) ==
    IF n < 10 THEN <<48 + n>> ELSE Append(DecimalText(n \div 10), 48 + (n % 10))

\* the texts of the octets 0..255
OctetTexts == {DecimalText(n) : n \in 0..255}

\* four decimal octets separated by '.'
IsDottedQuad(s) ==
    /\ Len(SplitOn(s, dotSeparator)) = 4
    /\ \A k \in 1..4 : SplitOn(s, dotSeparator)[k] \in OctetTexts

\* C8: every valid dotted quad is accepted by validateIPv4, and a URI whose
\* host is such a dotted quad parses with IsIP() true, under any scheme
C8_DottedQuadAccepted ==
    IsDottedQuad(raw) =>
        /\ called = "validateIPv4" => err = Nil
        /\ called = "Parse" => (err = Nil /\ ~isNil /\ IsIP(u.authority))

\* C9: validateIPv4 rejects every text that is not four dotted decimal
\* octets (empty octet, leading zero, octet above 255, wrong number of
\* octets, non-digit) with an error that matches ErrInvalidHostAddress
C9_NotDottedQuadRejected ==
    (called = "validateIPv4" /\ ~IsDottedQuad(raw)) =>
        ErrorsIs(err, ErrInvalidHostAddress)

\* ------------------------------------------------------------------------
\* validateHostForScheme under a scheme with DNS host validation
\* ------------------------------------------------------------------------

\* longest host of the exhaustive set
MaxHostLen == 5

\* a letter that is a hex digit, a digit, a hex digit in upper case, '-', '.', '%'
HostAlphabet == {101, 50, 68, 45, dotSeparator, percentMark}

\* a label of n bytes
LabelOf(n) == Repeat(<<101>>, n)

\* hosts at the limits of the lengths, escaped and non-ASCII hosts
LongHosts ==
    {
      LabelOf(maxSegmentLength),
      LabelOf(maxSegmentLength + 1),
      LabelOf(maxSegmentLength) \o B(<<".">>) \o LabelOf(maxSegmentLength),
      LabelOf(maxSegmentLength) \o B(<<"%", "2", "E">>) \o LabelOf(maxSegmentLength),
      LabelOf(maxSegmentLength) \o B(<<".">>) \o LabelOf(maxSegmentLength + 1),
      LabelOf(maxSegmentLength - 1) \o B(<<"-">>),
      LabelOf(maxSegmentLength) \o B(<<".">>),
      JoinDot(<<LabelOf(63), LabelOf(63), LabelOf(63), LabelOf(63)>>),
      JoinDot(<<LabelOf(63), LabelOf(63), LabelOf(63), LabelOf(61), LabelOf(1)>>),
      JoinDot(<<LabelOf(63), LabelOf(63), LabelOf(63), LabelOf(62), LabelOf(1)>>),
      JoinDot(<<LabelOf(63), LabelOf(63), LabelOf(63), LabelOf(60), LabelOf(1), LabelOf(1)>>),
      Repeat(B(<<"%", "6", "5">>), 21),
      Repeat(B(<<"%", "6", "5">>), 22),
      B(<<"%", "6", "5">>),
      B(<<"e", "%", "3", "2">>),
      B(<<"%", "3", "2", "e">>),
      B(<<"%", "6", "5", "%", "2", "D", "%", "3", "2", ".", "e">>),
      B(<<"e", "%", "2", "e", "e">>),
      B(<<"e", "%", "2", "5">>),
      B(<<"e", "%", "2", "D">>),
      <<195, 169>>,
      <<101, 195, 169, 46, 195, 169, 50>>,
      <<195>>,
      <<101, 195>>,
      <<101, 169>>,
      B(<<"%", "C", "3", "%", "A", "9">>),
      B(<<"e", "%", "C", "3", "%", "A", "9">>),
      B(<<"e", "%", "C", "3">>),
      B(<<"e", "%", "C", "3", "e">>),
      B(<<"e", "%", "A", "9">>),
      <<101, 217, 161>>,
      <<217, 161, 101>>,
      B(<<"e", "_", "e">>),
      B(<<"e", "~", "e">>),
      B(<<"e", "!", "e">>),
      B(<<"1", "9", "2", ".", "1", "6", "8", ".", "0", ".", "1">>),
      B(<<"2", "5", "6", ".", "2", "5", "6", ".", "2", "5", "6", ".", "2", "5", "6">>)
    }

DNSHosts == StringsUpTo(HostAlphabet, MaxHostLen) \cup LongHosts

\* the scheme of the hosts
DNSScheme == B(<<"h", "t", "t", "p">>)

InitDNS == InitWith(DNSHosts)

\* err := validateHostForScheme(raw, "http")
CallValidateHostForScheme ==
    /\ called = "none"
    /\ called' = "validateHostForScheme"
    /\ err' = validateHostForScheme(raw, <<DNSScheme>>)
    /\ UNCHANGED <<raw, isNil, u, out, nValidate, verr, usesDNS,
                 builder, reported,
                 ret, accesses>>

\* u, err := Parse("http://" + raw)
CallParseDNSHost ==
    Call("Parse", Parse(DNSScheme \o <<colonMark>> \o authorityPrefix \o raw))

\* the scheme of the hosts, in upper and in mixed case
DNSSchemeOtherCase == {B(<<"H", "T", "T", "P">>), B(<<"H", "t", "t", "p">>)}

\* u, err := Parse("HTTP://" + raw)
CallParseOtherCase ==
    \E scheme \in DNSSchemeOtherCase :
        Call("Parse(other case)", Parse(scheme \o <<colonMark>> \o authorityPrefix \o raw))

NextDNS == CallValidateHostForScheme \/ CallParseDNSHost \/ CallParseOtherCase

SpecDNS == InitDNS /\ [][NextDNS]_vars

\* the characters of a host are read one after the other: i is the number of
\* bytes read, runes the characters read, each with its decoded value and
\* the number of bytes it takes in the host; ok is FALSE when the host does
\* not decode
HostRuneRead(st, r, n) == [i |-> st.i + n, ok |-> TRUE, runes |-> Append(st.runes, [r |-> r, n |-> n])]
HostRuneNotRead(st) == [i |-> st.i, ok |-> FALSE, runes |-> st.runes]

\* the character of the host s read after st
HostRune(s, st) ==
    IF ~st.ok \/ st.i >= Len(s) THEN st
    ELSE LET d == DecodeRune(SliceFrom(s, st.i))
             e == unescapePercentEncoding(SliceFrom(s, st.i + 1))
         IN  IF d.r = RuneError THEN HostRuneNotRead(st)
             ELSE IF d.r # percentMark THEN HostRuneRead(st, d.r, d.size)
             ELSE IF st.i + 1 >= Len(s) \/ e.err # Nil THEN HostRuneNotRead(st)
             ELSE HostRuneRead(st, e.r, 1 + e.size)

RECURSIVE HostRunesFrom(_, _, _)
\* n characters of the host s read after st
HostRunesFrom(s, st, n) ==
    IF n <= 1 THEN HostRune(s, st)
    ELSE Only({ HostRunesFrom(s, half, n - (n \div 2))
                : half \in {HostRunesFrom(s, st, n \div 2)} })

\* the characters of a host
HostRunes(s) == HostRunesFrom(s, [i |-> 0, ok |-> TRUE, runes |-> <<>>], Len(s))

RECURSIVE HostLabels(_)
\* the labels of a decoded host: the runs between the '.' characters
HostLabels(runes) ==
    IF \A i \in 1..Len(runes) : runes[i].r # dotSeparator THEN <<runes>>
    ELSE LET k == CHOOSE i \in 1..Len(runes) :
                    /\ runes[i].r = dotSeparator
                    /\ \A j \in 1..(i - 1) : runes[j].r # dotSeparator
         IN  <<SubSeq(runes, 1, k - 1)>> \o HostLabels(SubSeq(runes, k + 1, Len(runes)))

RECURSIVE LabelBytes(_)
\* the number of bytes a label takes in the host
LabelBytes(label) ==
    IF Len(label) = 0 THEN 0 ELSE label[1].n + LabelBytes(Tail(label))

\* a label of a DNS name
IsDNSLabel(label) ==
    /\ Len(label) > 0
    /\ LabelBytes(label) <= 63
    /\ IsLetter(label[1].r)
    /\ \A i \in 1..Len(label) :
          IsLetter(label[i].r) \/ IsDigit(label[i].r) \/ label[i].r = 45
    /\ IsLetter(label[Len(label)].r) \/ IsDigit(label[Len(label)].r)

\* a well-formed DNS name
IsDNSName(host) ==
    /\ Len(host) > 0
    /\ Len(host) <= 255
    /\ HostRunes(host).ok
    /\ \A k \in 1..Len(HostLabels(HostRunes(host).runes)) :
          IsDNSLabel(HostLabels(HostRunes(host).runes)[k])

\* C10: under a scheme with DNS host validation, a host that is not an IP
\* address is accepted if and only if it is a well-formed DNS name: not
\* empty, at most 255 bytes, made of labels separated by '.' or its escaped
\* form, each label not empty, at most 63 bytes, starting with a letter,
\* continuing with letters, digits or '-', ending with a letter or a digit,
\* an escaped character counting as the character it decodes to
C10_DNSNameIff ==
    /\ called = "validateHostForScheme" => (err = Nil <=> IsDNSName(raw))
    /\ (called = "Parse" /\ raw # <<>> /\ ~u.authority.isIPv4) =>
            (err = Nil <=> IsDNSName(raw))

\* a host of the longest length allowed, accepted
C10_Witness ==
    /\ called = "validateHostForScheme"
    /\ err = Nil
    /\ Len(raw) = maxDomainLength

\* an escaped '.' separates two labels of the longest length
C10_WitnessEscapedDot ==
    /\ called = "Parse"
    /\ err = Nil
    /\ Len(raw) = 2 * maxSegmentLength + 3
    /\ \E i \in 1..Len(raw) : raw[i] = percentMark

\* ------------------------------------------------------------------------
\* UsesDNSHostValidation applied to scheme names
\* ------------------------------------------------------------------------

MaxSchemeLen == 2

\* the letters the short scheme names are made of
SchemeAlphabet == {104, 116, 112, 115, 119}

\* the scheme names of the test list, schemes registered without a DNS
\* host, upper-case spellings, and every short name
SchemeNames ==
    {
      B(<<"d", "n", "s">>), B(<<"d", "n", "t", "p">>),
      B(<<"f", "i", "n", "g", "e", "r">>), B(<<"f", "t", "p">>),
      B(<<"g", "i", "t">>), B(<<"h", "t", "t", "p">>),
      B(<<"h", "t", "t", "p", "s">>), B(<<"i", "m", "a", "p">>),
      B(<<"i", "r", "c">>), B(<<"j", "m", "s">>),
      B(<<"m", "a", "i", "l", "t", "o">>), B(<<"n", "f", "s">>),
      B(<<"n", "n", "t", "p">>), B(<<"n", "t", "p">>),
      B(<<"p", "o", "s", "t", "g", "r", "e", "s">>),
      B(<<"p", "o", "s", "t", "g", "r", "e", "s", "q", "l">>),
      B(<<"r", "e", "d", "i", "s">>), B(<<"r", "m", "i">>),
      B(<<"r", "t", "s", "p">>), B(<<"r", "s", "y", "n", "c">>),
      B(<<"s", "f", "t", "p">>), B(<<"s", "k", "y", "p", "e">>),
      B(<<"s", "m", "t", "p">>), B(<<"s", "n", "m", "p">>),
      B(<<"s", "o", "a", "p">>), B(<<"s", "s", "h">>),
      B(<<"s", "t", "e", "a", "m">>), B(<<"s", "v", "n">>),
      B(<<"t", "c", "p">>), B(<<"t", "e", "l", "n", "e", "t">>),
      B(<<"u", "d", "p">>), B(<<"v", "n", "c">>), B(<<"w", "a", "i", "s">>),
      B(<<"w", "s">>), B(<<"w", "s", "s">>)
    } \cup {
      B(<<"p", "h", "o", "n", "e">>), B(<<"f", "i", "l", "e">>),
      B(<<"u", "r", "n">>), B(<<"t", "e", "l">>), B(<<"l", "d", "a", "p">>),
      B(<<"n", "e", "w", "s">>), B(<<"H", "T", "T", "P">>),
      B(<<"H", "t", "t", "p">>)
    } \cup StringsUpTo(SchemeAlphabet, MaxSchemeLen)

InitScheme == InitWith(SchemeNames)

\* usesDNS := UsesDNSHostValidation(raw)
CallUsesDNSHostValidation ==
    /\ called = "none"
    /\ called' = "UsesDNSHostValidation"
    /\ usesDNS' = UsesDNSHostValidation(raw)
    /\ UNCHANGED <<raw, isNil, u, err, out, nValidate, verr,
                 builder, reported,
                 ret, accesses>>

\* u, err := Parse(raw + "://a_")
CallParseWithScheme ==
    Call("Parse", Parse(raw \o <<colonMark>> \o authorityPrefix \o <<97, 95>>))

NextScheme == CallUsesDNSHostValidation \/ CallParseWithScheme

SpecScheme == InitScheme /\ [][NextScheme]_vars

\* the canonical set of schemes whose host is a DNS name
CanonicalDNSSchemes ==
    {
      B(<<"d", "n", "s">>), B(<<"d", "n", "t", "p">>),
      B(<<"f", "i", "n", "g", "e", "r">>), B(<<"f", "t", "p">>),
      B(<<"g", "i", "t">>), B(<<"h", "t", "t", "p">>),
      B(<<"h", "t", "t", "p", "s">>), B(<<"i", "m", "a", "p">>),
      B(<<"i", "r", "c">>), B(<<"j", "m", "s">>),
      B(<<"m", "a", "i", "l", "t", "o">>), B(<<"n", "f", "s">>),
      B(<<"n", "n", "t", "p">>), B(<<"n", "t", "p">>),
      B(<<"p", "o", "s", "t", "g", "r", "e", "s">>),
      B(<<"p", "o", "s", "t", "g", "r", "e", "s", "q", "l">>),
      B(<<"r", "e", "d", "i", "s">>), B(<<"r", "m", "i">>),
      B(<<"r", "t", "s", "p">>), B(<<"r", "s", "y", "n", "c">>),
      B(<<"s", "f", "t", "p">>), B(<<"s", "k", "y", "p", "e">>),
      B(<<"s", "m", "t", "p">>), B(<<"s", "n", "m", "p">>),
      B(<<"s", "o", "a", "p">>), B(<<"s", "s", "h">>),
      B(<<"s", "t", "e", "a", "m">>), B(<<"s", "v", "n">>),
      B(<<"t", "c", "p">>), B(<<"t", "e", "l", "n", "e", "t">>),
      B(<<"u", "d", "p">>), B(<<"v", "n", "c">>), B(<<"w", "a", "i", "s">>),
      B(<<"w", "s">>), B(<<"w", "s", "s">>)
    }

\* C11: UsesDNSHostValidation returns true for every scheme of the canonical
\* DNS-validating set, "postgres" and "postgresql" included, and false for
\* any scheme outside that set.
C11_CanonicalSet ==
    called = "UsesDNSHostValidation" =>
        (usesDNS <=> raw \in CanonicalDNSSchemes)

\* ------------------------------------------------------------------------
\* Properties of the authority
\* ------------------------------------------------------------------------

\* the authority of the URI returned has a port and no host
PortWithoutHost ==
    Returns /\ ~isNil /\ u.authority.port # <<>> /\ u.authority.host = <<>>

\* the scheme, the query, the fragment, the path and the userinfo of the URI
\* returned are each valid
OtherComponentsValid ==
    /\ validateSchemeQueryFragment(u) = Nil
    /\ u.authority.path # <<>> => validatePath(u.authority, u.authority.path) = Nil
    /\ u.authority.userinfo # <<>> => validateUserInfo(u.authority.userinfo) = Nil

\* the port is made of ASCII digits
AllDigits(port) == \A i \in 1..Len(port) : port[i] \in 48..57

\* C12 as stated: an input whose authority has a non-empty port and an empty
\* host, its other components being valid, fails with ErrMissingHost whatever
\* the content of the port; no accepted URI has a port without a host.
C12_MissingHostAnyPort ==
    PortWithoutHost =>
        /\ err # Nil
        /\ OtherComponentsValid => ErrorsIs(err, ErrMissingHost)

\* C12 (amended): an input whose authority has a non-empty port and an empty
\* host is never accepted; its other components being valid, it fails with
\* ErrMissingHost when the port is made of digits and with ErrInvalidPort
\* when it is not.
C12_MissingHostDigitPort ==
    PortWithoutHost =>
        /\ err # Nil
        /\ OtherComponentsValid =>
            IF AllDigits(u.authority.port)
            THEN ErrorsIs(err, ErrMissingHost)
            ELSE ErrorsIs(err, ErrInvalidPort) /\ ~ErrorsIs(err, ErrMissingHost)

C12_Witness ==
    /\ PortWithoutHost
    /\ OtherComponentsValid
    /\ u.authority.userinfo # <<>>
    /\ ErrorsIs(err, ErrMissingHost)

\* the text of the authority as written in the hier-part of the URI
\* returned: what stands between the leading "//" and the next '/'
AuthorityText(hier) ==
    IF ~HasPrefix(hier, authorityPrefix) THEN <<>>
    ELSE IF \E i \in 3..Len(hier) : hier[i] = slashMark
         THEN SubSeq(hier, 3, (CHOOSE i \in 3..Len(hier) :
                                  /\ hier[i] = slashMark
                                  /\ \A j \in 3..(i - 1) : hier[j] # slashMark) - 1)
         ELSE SubSeq(hier, 3, Len(hier))

\* the authority of the URI returned is written as ':' alone
ColonAlone ==
    Returns /\ ~isNil /\ AuthorityText(u.hierPart) = <<colonMark>>

\* C13: an empty port is allowed only next to a host, so an authority made
\* of ':' alone (empty host, empty port) is rejected by Parse and by
\* ParseReference.
C13_ColonAloneRejected == ColonAlone => err # Nil

\* host[:port] as written in the authority text: what follows the first
\* '@', or the whole authority text when it has no '@'
HostPortText(authority) ==
    IF \E i \in 1..Len(authority) : authority[i] = atHost
    THEN SubSeq(authority,
                1 + (CHOOSE i \in 1..Len(authority) :
                        /\ authority[i] = atHost
                        /\ \A j \in 1..(i - 1) : authority[j] # atHost),
                Len(authority))
    ELSE authority

\* the authority of the URI returned is written with a '['
WrittenWithBracket ==
    /\ Returns
    /\ ~isNil
    /\ \E i \in 1..Len(AuthorityText(u.hierPart)) :
          AuthorityText(u.hierPart)[i] = openingBracketMark

\* host between brackets
Bracketed(host) == <<openingBracketMark>> \o host \o <<closingBracketMark>>

\* C14: a bracketed IP literal is recognized only when '[' is the first
\* character of host[:port] and only ':' and the port follow the matching
\* ']': an authority written with other text before '[' or after ']' is
\* rejected, so host[:port] of an accepted URI is the host between
\* brackets, with nothing else than ':' and the port after it.
C14_BracketedLiteral ==
    WrittenWithBracket /\ err = Nil =>
        \/ HostPortText(AuthorityText(u.hierPart)) = Bracketed(u.authority.host)
        \/ HostPortText(AuthorityText(u.hierPart)) =
              Bracketed(u.authority.host) \o <<colonMark>> \o u.authority.port

\* ------------------------------------------------------------------------
\* validateIPv6 applied to addresses with a zone
\* ------------------------------------------------------------------------

MaxZoneLen == 4

\* the bytes the zones are made of: '%', '2', '5', 'a'
ZoneAlphabet == {percentMark, 50, 53, 97}

\* nothing, or a '%' and what follows it
ZoneTexts ==
    {z \in StringsUpTo(ZoneAlphabet, MaxZoneLen) : z = <<>> \/ z[1] = percentMark}
    \cup {
      B(<<"%", "2", "5", "e", "n", "0">>),
      B(<<"%", "2", "5", "%", "6", "1">>),
      B(<<"%", "2", "5", "%", "z", "z">>),
      B(<<"%", "e", "t", "h", "0">>),
      B(<<"%", "2", "5", "l", "o">>)
    }

\* addresses: IPv6, and texts that are not an IPv6 address
IPv6Addresses ==
    {
      B(<<":", ":", "1">>),
      B(<<"f", "e", "8", "0", ":", ":", "1">>),
      B(<<":", ":">>),
      B(<<"1", ".", "2", ".", "0", ".", "1">>),
      B(<<":">>)
    }

IPv6Inputs == {a \o z : a \in IPv6Addresses, z \in ZoneTexts}

InitIPv6 == InitWith(IPv6Inputs)

\* err := validateIPv6(raw)
CallValidateIPv6 ==
    /\ called = "none"
    /\ called' = "validateIPv6"
    /\ err' = validateIPv6(raw)
    /\ UNCHANGED <<raw, isNil, u, out, nValidate, verr, usesDNS,
                 builder, reported,
                 ret, accesses>>

\* u, err := Parse("http://[" + raw + "]")
CallParseIPv6Host ==
    Call("Parse", Parse(DNSScheme \o <<colonMark>> \o authorityPrefix \o Bracketed(raw)))

NextIPv6 == CallValidateIPv6 \/ CallParseIPv6Host

SpecIPv6 == InitIPv6 /\ [][NextIPv6]_vars

\* the address is written with a zone: it holds a '%'
HasZone(host) == \E i \in 1..Len(host) : host[i] = percentMark

\* the zone as written, from the first '%' on
ZoneOf(host) ==
    SubSeq(host,
           CHOOSE i \in 1..Len(host) :
              /\ host[i] = percentMark
              /\ \A j \in 1..(i - 1) : host[j] # percentMark,
           Len(host))

\* the zone is written "%25" followed by a zone id that is not empty
ZoneEscaped(host) ==
    /\ Len(ZoneOf(host)) >= 4
    /\ SubSeq(ZoneOf(host), 1, 3) = <<percentMark, 50, 53>>

\* validateIPv6 was applied to raw, directly or by Parse
ValidatedIPv6 == called \in {"validateIPv6", "Parse"}

C15_WitnessAccepted ==
    /\ called = "Parse"
    /\ raw = B(<<"f", "e", "8", "0", ":", ":", "1", "%", "2", "5", "e", "n", "0">>)
    /\ err = Nil

\* the authority of the URI returned has no userinfo, no host and no port
EmptyAuthority ==
    /\ u.authority.userinfo = <<>>
    /\ u.authority.host = <<>>
    /\ u.authority.port = <<>>

\* the path of the URI returned begins with "//"
PathDoubleSlash == HasPrefix(u.authority.path, authorityPrefix)

\* the host, the port and the userinfo of the URI returned are each valid,
\* and so is every segment of its path
AuthorityComponentsValid ==
    /\ validateHostPortAndUserInfo(u.authority, <<u.scheme>>).err = Nil
    /\ validateSegments(SplitOn(u.authority.path, slashMark), 1) = Nil

C16_WitnessAccepted ==
    /\ called = "Parse"
    /\ ~isNil
    /\ u.authority.host # <<>>
    /\ PathDoubleSlash
    /\ err = Nil

\* ------------------------------------------------------------------------
\* Properties of the split into scheme, hier-part, query and fragment
\* ------------------------------------------------------------------------

\* the input has a '#' and a '?', and its first '#' precedes its first '?'
FragmentBeforeQuery == FirstFragment >= 0 /\ FirstQuestion > FirstFragment

\* what the input holds before position i, past the scheme and its ':'
HierPartUpTo(i) ==
    IF WithoutScheme THEN SubSeq(raw, 1, i) ELSE SubSeq(raw, FirstColon + 2, i)

\* C17: when the first '#' precedes the first '?', the hier-part ends at
\* that '#', the query is empty, and everything after the first '#', every
\* '?' included, is the fragment.
C17_FragmentBeforeQuery ==
    Returns /\ ~isNil /\ FragmentBeforeQuery =>
        /\ u.hierPart = HierPartUpTo(FirstFragment)
        /\ u.query = <<>>
        /\ u.fragment = SubSeq(raw, FirstFragment + 2, Len(raw))

\* an accepted input with a scheme and an authority whose fragment holds a
\* '?'
C17_Witness ==
    /\ called = "Parse"
    /\ err = Nil
    /\ ~isNil
    /\ FragmentBeforeQuery
    /\ u.authority.host # <<>>
    /\ \E i \in 1..Len(u.fragment) : u.fragment[i] = questionMark

\* the input begins with "//" and was given to ParseReference
RelativeReference ==
    called = "ParseReference" /\ HasPrefix(raw, authorityPrefix)

\* the authority, the path, the query and the fragment of the input are
\* individually valid: the same text is accepted behind the scheme "foo",
\* whose host follows the same rules as the host of a URI without scheme
ValidBehindScheme ==
    Parse(B(<<"f", "o", "o", ":">>) \o raw).err = Nil

\* C18: for an input that begins with "//", ParseReference never takes a
\* later ':' as the scheme delimiter: wherever the ':' is (authority, path,
\* query or fragment), the input is accepted whenever its authority, path,
\* query and fragment are valid, and the URI returned has an empty scheme.
C18_RelativeNoScheme ==
    RelativeReference =>
        /\ ~isNil => u.scheme = <<>>
        /\ ValidBehindScheme => err = Nil

\* C19 as stated: in every URI returned by Parse or ParseReference, the
\* authority prefix is "//" if and only if at least one of userinfo, host
\* and port is not empty.
C19_PrefixIffAuthority ==
    Returns /\ ~isNil =>
        (u.authority.prefix = authorityPrefix <=> ~EmptyAuthority)

\* C19 (amended): in every URI returned by Parse or ParseReference, the
\* authority prefix is "//" when the hier-part begins with "//" and empty
\* otherwise; it is "//" whenever one of userinfo, host and port is not
\* empty, and it may be "//" with all three empty.
C19_PrefixIffDoubleSlash ==
    Returns /\ ~isNil =>
        /\ u.authority.prefix =
              (IF HasPrefix(u.hierPart, authorityPrefix) THEN authorityPrefix ELSE <<>>)
        /\ ~EmptyAuthority => u.authority.prefix = authorityPrefix

\* "foo:///a" is accepted with the prefix "//" and an empty authority
C19_Witness ==
    /\ called = "Parse"
    /\ err = Nil
    /\ ~isNil
    /\ u.authority.prefix = authorityPrefix
    /\ EmptyAuthority
    /\ u.authority.path # <<>>

\* ------------------------------------------------------------------------
\* Builder (src/uri.go): the setters, on the URI a Builder was taken from
\* ------------------------------------------------------------------------

\* uri.ensureAuthorityExists: the prefix is set next to a userinfo, a host
\* or a port
ensureAuthorityExists(x) ==
    IF x.authority.userinfo # <<>> \/ x.authority.host # <<>> \/ x.authority.port # <<>>
    THEN [x EXCEPT !.authority.prefix = authorityPrefix]
    ELSE x

SetScheme(x, scheme) == [x EXCEPT !.scheme = scheme]

SetUserInfo(x, userinfo) == [ensureAuthorityExists(x) EXCEPT !.authority.userinfo = userinfo]

SetHost(x, host) == [ensureAuthorityExists(x) EXCEPT !.authority.host = host]

SetPort(x, port) == [ensureAuthorityExists(x) EXCEPT !.authority.port = port]

SetPath(x, path) == [ensureAuthorityExists(x) EXCEPT !.authority.path = path]

SetQuery(x, query) == [x EXCEPT !.query = query]

SetFragment(x, fragment) == [x EXCEPT !.fragment = fragment]

\* the URIs a Builder is taken from
BuilderInputs ==
    {
      B(<<"h", "t", "t", "p", ":">>),
      B(<<"m", "a", "i", "l", "t", "o", ":", "/", "/", "u", "s", "e", "r", "@", "d", "o", "m", "a", "i", "n", ".", "c", "o", "m">>),
      B(<<"h", "t", "t", "p", "s", ":", "/", "/", "u", "s", "e", "r", "@", "d", "o", "m", "a", "i", "n", ".", "c", "o", "m">>),
      B(<<"h", "t", "t", "p", ":", "/", "/", "h", "o", "s", "t", ":", "8", "0", "/", "p", "?", "q", "#", "f">>),
      B(<<"f", "i", "l", "e", ":", "/", "/", "/", "e", "t", "c">>),
      B(<<"h", "t", "t", "p", ":", "/", "/", "[", ":", ":", "1", "]", ":", "8", "0">>)
    }

\* the values given to the setters
SchemeValues == {B(<<"h", "t", "t", "p">>)}
UserInfoValues == {B(<<"y", "o", "l", "o">>), B(<<"a", " ", "b">>)}
HostValues == {B(<<"n", "e", "w", "d", "o", "m", "a", "i", "n", ".", "c", "o", "m">>), <<>>, B(<<":", ":", "1">>), B(<<"a", " ", "b">>)}
PortValues == {B(<<"4", "4", "3">>), <<>>, B(<<"x">>)}
PathValues == {B(<<"/", "a", "b", "c", "d">>), B(<<"/", "%">>)}
QueryValues == {B(<<"a", "=", "b">>)}
FragmentValues == {B(<<"c", "h", "a", "p", "t", "e", "r">>)}

InitBuilder == InitWith(BuilderInputs)

\* b := u.Builder(): the Builder is the pointer u itself
CallBuilder ==
    /\ called = "Parse"
    /\ ~isNil
    /\ builder = "nil"
    /\ builder' = "u"
    /\ reported' = u
    /\ UNCHANGED <<raw, called, isNil, u, err, out, nValidate, verr, usesDNS,
                 ret, accesses>>

\* a setter called on the Builder, before it is finished: it writes to the
\* object the Builder points to and returns the same Builder
CallSetter(x) ==
    /\ builder = "u"
    /\ u' = x
    /\ UNCHANGED <<raw, called, isNil, err, out, nValidate, verr, usesDNS,
                 builder, reported,
                 ret, accesses>>

CallSetScheme == \E scheme \in SchemeValues : CallSetter(SetScheme(u, scheme))

CallSetUserInfo == \E userinfo \in UserInfoValues : CallSetter(SetUserInfo(u, userinfo))

CallSetHost == \E host \in HostValues : CallSetter(SetHost(u, host))

CallSetPort == \E port \in PortValues : CallSetter(SetPort(u, port))

CallSetPath == \E path \in PathValues : CallSetter(SetPath(u, path))

CallSetQuery == \E query \in QueryValues : CallSetter(SetQuery(u, query))

CallSetFragment == \E fragment \in FragmentValues : CallSetter(SetFragment(u, fragment))

\* u.Authority() on the URI returned by Parse
CallAuthority ==
    /\ called = "Parse"
    /\ ~isNil
    /\ u' = ensureAuthorityExists(u)
    /\ UNCHANGED <<raw, called, isNil, err, out, nValidate, verr, usesDNS,
                 builder, reported,
                 ret, accesses>>

\* b.Build(): the URI returned is the pointer u itself, as it is
CallBuild ==
    /\ builder = "u"
    /\ builder' = "built"
    /\ UNCHANGED <<raw, called, isNil, u, err, out, nValidate, verr, usesDNS,
                 reported, ret, accesses>>

NextBuilder ==
    \/ CallParse
    \/ CallBuilder
    \/ CallAuthority
    \/ CallValidate
    \/ CallBuild
    \/ CallSetScheme
    \/ CallSetUserInfo
    \/ CallSetHost
    \/ CallSetPort
    \/ CallSetPath
    \/ CallSetQuery
    \/ CallSetFragment

SpecBuilder == InitBuilder /\ [][NextBuilder]_vars

\* what a URI reports: its String() and its components
Reports(x) ==
    [text |-> String(x), scheme |-> x.scheme, userinfo |-> x.authority.userinfo,
     host |-> x.authority.host, port |-> x.authority.port, path |-> x.authority.path,
     query |-> x.query, fragment |-> x.fragment]

\* C20: calling setters on the Builder obtained from a URI never changes
\* what that URI reports: its String() and its components are, after the
\* Builder was mutated, what they were when the Builder was obtained.
C20_BuilderDoesNotAlias ==
    builder # "nil" => Reports(u) = Reports(reported)

\* every component the URI holds is valid: scheme, query, fragment, host,
\* port, userinfo, and each segment of the path
HeldComponentsValid ==
    /\ validateSchemeQueryFragment(u) = Nil
    /\ AuthorityComponentsValid

\* C21: finishing a builder re-runs validation: after any sequence of
\* setter calls, Build() returns a URI only if every component held is
\* valid, so no invalid URI is obtained through the builder.
C21_BuildValidates == builder = "built" => HeldComponentsValid

\* the URI holds a userinfo, a host or a port that is not empty
HoldsAuthority ==
    \/ u.authority.userinfo # <<>>
    \/ u.authority.host # <<>>
    \/ u.authority.port # <<>>

\* C22: once SetUserInfo, SetHost or SetPort has stored a non-empty value in
\* a URI that had no authority prefix, String() writes the authority with
\* the "//" prefix, right after a single setter call as after several, and
\* without Authority() having been called.
C22_SetterMaterializesPrefix ==
    (builder # "nil" /\ HoldsAuthority) =>
        HasPrefix(AuthorityString(u.authority), authorityPrefix)

\* ------------------------------------------------------------------------
\* Default ports (src/builder_test.go:310-431)
\* ------------------------------------------------------------------------

\* strings.ToLower, on the bytes of an ASCII text
ToLower(s) == [i \in 1..Len(s) |-> IF s[i] >= 65 /\ s[i] <= 90 THEN s[i] + 32 ELSE s[i]]

\* the text without its leading zeros
RECURSIVE TrimZeros(_)
TrimZeros(s) == IF Len(s) > 0 /\ s[1] = 48 THEN TrimZeros(Tail(s)) ELSE s

\* strconv.ParseUint(s, 10, 64) with its error dropped: 0 on a syntax
\* error, the largest uint64 when the value is out of range. Values of up
\* to nine digits are kept exactly; every larger uint64, the one of a range
\* error included, is above every port of the switch and is kept as 10^9.
ParseUint(s) ==
    IF Len(s) = 0 \/ \E i \in 1..Len(s) : ~isDigit(s[i]) THEN 0
    ELSE IF Len(TrimZeros(s)) > 9 THEN 1000000000
    ELSE DecimalValue(TrimZeros(s))

\* the cases of the switch of defaultPortForScheme
DefaultPorts ==
    {
      <<B(<<"a", "a", "a">>), 3868>>,
      <<B(<<"a", "a", "a", "s">>), 5658>>,
      <<B(<<"a", "c", "a", "p">>), 674>>,
      <<B(<<"c", "a", "p">>), 1026>>,
      <<B(<<"c", "o", "a", "p">>), 5683>>,
      <<B(<<"c", "o", "a", "p", "+", "t", "c", "p">>), 5683>>,
      <<B(<<"c", "o", "a", "p", "s">>), 5684>>,
      <<B(<<"c", "o", "a", "p", "+", "w", "s">>), 80>>,
      <<B(<<"c", "o", "a", "p", "s", "+", "w", "s">>), 443>>,
      <<B(<<"d", "i", "c", "t">>), 2628>>,
      <<B(<<"d", "n", "s">>), 53>>,
      <<B(<<"f", "i", "n", "g", "e", "r">>), 79>>,
      <<B(<<"f", "t", "p">>), 21>>,
      <<B(<<"g", "i", "t">>), 9418>>,
      <<B(<<"g", "o">>), 1096>>,
      <<B(<<"g", "o", "p", "h", "e", "r">>), 70>>,
      <<B(<<"h", "t", "t", "p">>), 80>>,
      <<B(<<"h", "t", "t", "p", "s">>), 443>>,
      <<B(<<"i", "a", "x">>), 4569>>,
      <<B(<<"i", "c", "a", "p">>), 1344>>,
      <<B(<<"i", "m", "a", "p">>), 143>>,
      <<B(<<"i", "p", "p">>), 631>>,
      <<B(<<"i", "p", "p", "s">>), 631>>,
      <<B(<<"i", "r", "c">>), 194>>,
      <<B(<<"l", "d", "a", "p">>), 389>>,
      <<B(<<"m", "a", "i", "l", "t", "o">>), 25>>,
      <<B(<<"n", "f", "s">>), 2049>>,
      <<B(<<"n", "n", "t", "p">>), 119>>,
      <<B(<<"n", "t", "p">>), 123>>,
      <<B(<<"p", "o", "s", "t", "g", "r", "e", "s", "q", "l">>), 5432>>,
      <<B(<<"r", "a", "d", "i", "u", "s">>), 1812>>,
      <<B(<<"r", "e", "d", "i", "s">>), 6379>>,
      <<B(<<"r", "m", "i">>), 1098>>,
      <<B(<<"r", "t", "s", "p">>), 554>>,
      <<B(<<"r", "s", "y", "n", "c">>), 873>>,
      <<B(<<"s", "f", "t", "p">>), 22>>,
      <<B(<<"s", "k", "y", "p", "e">>), 23399>>,
      <<B(<<"s", "m", "t", "p">>), 25>>,
      <<B(<<"s", "n", "m", "p">>), 161>>,
      <<B(<<"s", "s", "h">>), 22>>,
      <<B(<<"s", "t", "e", "a", "m">>), 7777>>,
      <<B(<<"s", "v", "n">>), 3690>>,
      <<B(<<"t", "e", "l", "n", "e", "t">>), 23>>,
      <<B(<<"v", "n", "c">>), 5500>>,
      <<B(<<"w", "s", "s">>), 6602>>
    }

\* defaultPortForScheme: 0 when the scheme has no case
defaultPortForScheme(scheme) ==
    IF \E p \in DefaultPorts : p[1] = scheme
    THEN (CHOOSE p \in DefaultPorts : p[1] = scheme)[2]
    ELSE 0

\* uri.IsDefaultPort
IsDefaultPort(x) ==
    IF Len(x.authority.port) = 0 THEN TRUE
    ELSE defaultPortForScheme(ToLower(x.scheme)) = ParseUint(x.authority.port)

\* schemes and ports of the URIs asked for their default port
PortSchemes == {B(<<"h", "t", "t", "p">>), B(<<"H", "T", "T", "P">>), B(<<"H", "t", "t", "p", "s">>), B(<<"f", "o", "o">>), B(<<"p", "o", "s", "t", "g", "r", "e", "s", "q", "l">>), B(<<"s", "s", "h">>)}
PortTexts == {<<>>, B(<<"8", "0">>), B(<<"8", "0", "8", "0">>), B(<<"4", "4", "3">>), B(<<"0">>), B(<<"0", "0">>), B(<<"0", "8", "0">>), B(<<"5", "4", "3", "2">>), B(<<"2", "2">>)}

PortInputs ==
    {scheme \o <<colonMark>> \o authorityPrefix \o B(<<"h", "o", "s", "t">>)
        \o (IF port = <<>> THEN <<>> ELSE <<colonMark>> \o port)
     : scheme \in PortSchemes, port \in PortTexts}

InitPort == InitWith(PortInputs)

\* u.IsDefaultPort() on the URI returned by Parse
CallIsDefaultPort ==
    /\ called = "Parse"
    /\ ~isNil
    /\ ~ret.set
    /\ ret' = [set |-> TRUE, v |-> IsDefaultPort(u)]
    /\ UNCHANGED <<raw, called, isNil, u, err, out, nValidate, verr, usesDNS,
                 builder, reported, accesses>>

NextPort == CallParse \/ CallIsDefaultPort

SpecPort == InitPort /\ [][NextPort]_vars

\* the default ports the claim's schemes are known for (IANA)
KnownDefaultPort(scheme) ==
    IF \E p \in DefaultPorts : p[1] = ToLower(scheme)
    THEN {(CHOOSE p \in DefaultPorts : p[1] = ToLower(scheme))[2]}
    ELSE {}

\* C24: IsDefaultPort() returns true exactly when the port is empty, or the
\* scheme, compared without regard to case, has a known default port that
\* is the port of the URI; with a scheme that has no known default port and
\* a port that is not empty it returns false.
C24_IsDefaultPort ==
    (called = "Parse" /\ err = Nil /\ ret.set) =>
        (ret.v <=> \/ u.authority.port = <<>>
                   \/ DecimalValue(u.authority.port) \in KnownDefaultPort(u.scheme))

\* ------------------------------------------------------------------------
\* Escaping errors of the DNS host validation
\* ------------------------------------------------------------------------

\* the beginning of a label, up to a character that cannot be read: empty,
\* or a letter followed by letters, digits or '-', within 63 bytes
IsDNSLabelStart(label) ==
    \/ Len(label) = 0
    \/ /\ LabelBytes(label) <= 63
       /\ IsLetter(label[1].r)
       /\ \A i \in 1..Len(label) :
             IsLetter(label[i].r) \/ IsDigit(label[i].r) \/ label[i].r = 45

\* the characters read (st) stop at a '%' of the host and break no rule
\* of DNS names before it
StopsAtEscape(host, st, labels) ==
    /\ ~st.ok
    /\ At(host, st.i) = percentMark
    /\ \A k \in 1..(Len(labels) - 1) : IsDNSLabel(labels[k])
    /\ IsDNSLabelStart(labels[Len(labels)])

\* the validation of the host can only fail on a '%'-sequence that is
\* incomplete or does not decode to a valid scalar
EscapeFailure(host) ==
    /\ Len(host) > 0
    /\ Len(host) <= maxDomainLength
    /\ StopsAtEscape(host, HostRunes(host), HostLabels(HostRunes(host).runes))

\* C25: whenever the DNS host validation fails because a '%'-sequence is
\* incomplete or does not decode to a valid scalar, at any position of any
\* label (the first character of a label and a '%' that ends the host
\* included), the error matches both ErrInvalidDNSName and
\* ErrInvalidEscaping.
C25_EscapeErrorWrapsBoth ==
    (called \in {"validateHostForScheme", "Parse"} /\ EscapeFailure(raw)) =>
        /\ ErrorsIs(err, ErrInvalidDNSName)
        /\ ErrorsIs(err, ErrInvalidEscaping)

\* ------------------------------------------------------------------------
\* unescapePercentEncoding applied to escaped code points
\* ------------------------------------------------------------------------

\* the largest number of escaped bytes that follow the first one
MaxFollowing == 3

\* first bytes: ASCII, continuation bytes, the limits of the leading bytes
\* of 2, 3 and 4 byte sequences, bytes that lead no sequence
LeadBytes == {37, 101, 127, 128, 191, 192, 194, 195, 223, 224, 227, 237, 239, 240, 244, 245, 255}

\* following bytes: not a continuation, the limits of the ranges of the
\* second byte, continuation bytes
FollowBytes == {127, 128, 143, 144, 159, 160, 189, 191}

\* the hex digit of a value below 16
HexDigit(n) == IF n < 10 THEN 48 + n ELSE 55 + n

RECURSIVE EscapedText(_)
\* the bytes written "HH%HH%HH": what follows the first '%'
EscapedText(bytes) ==
    IF Len(bytes) = 0 THEN <<>>
    ELSE <<HexDigit(bytes[1] \div 16), HexDigit(bytes[1] % 16)>>
         \o (IF Len(bytes) = 1 THEN <<>> ELSE <<percentMark>> \o EscapedText(Tail(bytes)))

FollowSeqs == UNION {[1..n -> FollowBytes] : n \in 0..MaxFollowing}

\* truncated and malformed texts, lower case digits, the replacement
\* character written in full
EscapeExtra ==
    StringsUpTo({percentMark, 67, 51, 71, 101}, 4) \cup
    {
      B(<<"C", "3", "%", "b", "6">>),
      B(<<"E", "3", "%", "a", "3", "%", "A", "f">>),
      B(<<"E", "3", "a", "3", "%", "A", "f">>),
      B(<<"F", "0", "%", "9", "F", "%", "8", "F", "%", "8", "8">>),
      B(<<"F", "0", "%", "9", "F", "%", "8", "F", "8", "8">>),
      B(<<"F", "0", "%", "9", "F", "%", "8", "F", "%", "8">>),
      B(<<"F", "0", "%", "N", "F", "%", "8", "F", "%", "8", "8">>),
      B(<<"F", "0", "%", "9", "F", "%", "8", "F", "%", "0", "1">>),
      B(<<"F", "0", "%", "9", "F", "X">>),
      <<239, 191, 189>>
    }

EscapeInputs ==
    {EscapedText(<<b0>> \o rest) \o tail
        : b0 \in LeadBytes, rest \in FollowSeqs, tail \in {<<>>, <<101>>}}
    \cup EscapeExtra

InitEscape == InitWith(EscapeInputs)

\* r, offset, err := unescapePercentEncoding(raw)
CallUnescapePercentEncoding ==
    /\ called = "none"
    /\ called' = "unescapePercentEncoding"
    /\ ret' = [set |-> TRUE, v |-> unescapePercentEncoding(raw)]
    /\ UNCHANGED <<raw, isNil, u, err, out, nValidate, verr, usesDNS,
                 builder, reported, accesses>>

NextEscape == CallUnescapePercentEncoding

SpecEscape == InitEscape /\ [][NextEscape]_vars

\* the number of bytes of the UTF-8 sequence led by b0, 0 when b0 leads none
SequenceLength(b0) ==
    IF b0 < 128 THEN 1
    ELSE IF 194 <= b0 /\ b0 <= 223 THEN 2
    ELSE IF 224 <= b0 /\ b0 <= 239 THEN 3
    ELSE IF 240 <= b0 /\ b0 <= 244 THEN 4
    ELSE 0

\* s holds k + 1 escaped bytes "HH%HH...": two hex digits, then k times a
\* '%' and two hex digits
HoldsEscaped(s, k) ==
    /\ Len(s) >= 3 * k + 2
    /\ \A j \in 0..k :
          /\ isHex(s[3 * j + 1])
          /\ isHex(s[3 * j + 2])
          /\ (j > 0 => s[3 * j] = percentMark)

\* the j-th escaped byte of s, counted from 0
EscapedByte(s, j) == unhex(s[3 * j + 1]) * 16 + unhex(s[3 * j + 2])

\* the escaped bytes of s that make the sequence led by its first byte
EscapedSequence(s) ==
    [j \in 1..SequenceLength(EscapedByte(s, 0)) |-> EscapedByte(s, j - 1)]

\* well-formed UTF-8 byte sequences (Unicode, table 3-7)
WellFormedUTF8(bs) ==
    \/ Len(bs) = 1 /\ bs[1] < 128
    \/ Len(bs) = 2 /\ IsCont(bs[2])
    \/ /\ Len(bs) = 3
       /\ IsCont(bs[2]) /\ IsCont(bs[3])
       /\ (bs[1] = 224 => bs[2] >= 160)
       /\ (bs[1] = 237 => bs[2] <= 159)
    \/ /\ Len(bs) = 4
       /\ IsCont(bs[2]) /\ IsCont(bs[3]) /\ IsCont(bs[4])
       /\ (bs[1] = 240 => bs[2] >= 144)
       /\ (bs[1] = 244 => bs[2] <= 143)

\* the scalar value a well-formed sequence encodes
ScalarOf(bs) ==
    IF Len(bs) = 1 THEN bs[1]
    ELSE IF Len(bs) = 2 THEN (bs[1] - 192) * 64 + (bs[2] - 128)
    ELSE IF Len(bs) = 3 THEN (bs[1] - 224) * 4096 + (bs[2] - 128) * 64 + (bs[3] - 128)
    ELSE (bs[1] - 240) * 262144 + (bs[2] - 128) * 4096 + (bs[3] - 128) * 64 + (bs[4] - 128)

\* s begins with the escaped bytes of one well-formed UTF-8 sequence
DecodesToScalar(s) ==
    /\ HoldsEscaped(s, 0)
    /\ SequenceLength(EscapedByte(s, 0)) > 0
    /\ HoldsEscaped(s, SequenceLength(EscapedByte(s, 0)) - 1)
    /\ WellFormedUTF8(EscapedSequence(s))

C26_WitnessMissing ==
    /\ called = "unescapePercentEncoding"
    /\ ret.set
    /\ ret.v.err # Nil
    /\ HoldsEscaped(raw, 1)
    /\ SequenceLength(EscapedByte(raw, 0)) = 3
    /\ Len(raw) = 5

\* C27: Validate() checks the components the URI holds when it is called:
\* when a setter of the builder has stored an invalid host, port, userinfo
\* or path, Validate() returns an error, for a URI parsed with an authority
\* as for one parsed from a scheme alone such as "http:".
C27_ValidateChecksHeld ==
    [][(builder # "nil" /\ nValidate' = nValidate + 1 /\ ~AuthorityComponentsValid)
            => verr' # Nil]_vars

\* C28: Authority() is a pure observer: in any state reached by Parse or
\* ParseReference followed by any sequence of setter calls of the builder,
\* a call of Authority() does not change what the next String() returns.
C28_AuthorityObserves == [][CallAuthority => String(u') = String(u)]_vars

\* C29: the validation of the host does not depend on the letter case of
\* the scheme: for a scheme with DNS host validation and any host, the URI
\* with the scheme written in upper or mixed case is accepted exactly when
\* the URI with the scheme in lower case is.
C29_SchemeCaseInsensitive ==
    called = "Parse(other case)" =>
        (err = Nil <=>
            Parse(DNSScheme \o <<colonMark>> \o authorityPrefix \o raw).err = Nil)

\* the host held is an IPv6 or IPvFuture literal
HoldsIPLiteral == u.authority.host # <<>> /\ validateIPv6(u.authority.host) = Nil

\* String() writes the host between '[' and ']'
StringWrapsHost == String(u) = String([u EXCEPT !.authority.isIPv6 = TRUE])

\* C30: String() wraps the host in '[' and ']' exactly when the host the
\* URI holds is an IPv6 or IPvFuture literal, also after SetHost has
\* replaced the host through a builder, a name by an IPv6 literal as well
\* as an IPv6 literal by a name.
C30_BracketsIffIPLiteral ==
    (called = "Parse" /\ err = Nil) => (StringWrapsHost <=> HoldsIPLiteral)

\* ------------------------------------------------------------------------
\* One URI shared by goroutines that call its read-side methods
\* ------------------------------------------------------------------------

\* the fields of uri and authorityInfo (ipType is the embedded struct)
AuthorityFields == {"prefix", "userinfo", "host", "port", "path", "ipType"}
Fields == {"scheme", "hierPart", "query", "fragment"} \cup AuthorityFields

ReadOf(fields) == {[field |-> f, kind |-> "read"] : f \in fields}
WriteOf(fields) == {[field |-> f, kind |-> "write"] : f \in fields}

\* the URIs shared
SharedInputs ==
    {
      B(<<"h", "t", "t", "p", ":">>),
      B(<<"h", "t", "t", "p", ":", "/", "/", "h", "o", "s", "t", ":", "8", "0", "/", "p", "?", "q", "#", "f">>),
      B(<<"f", "o", "o", ":", "/", "/", "h", ":", "0">>),
      B(<<"h", "t", "t", "p", ":", "/", "/", "[", ":", ":", "1", "]", ":", "8", "0">>),
      B(<<"f", "i", "l", "e", ":", "/", "/", "/", "e", "t", "c">>)
    }

InitShared == InitWith(SharedInputs)

\* the URI is handed to the goroutines once it is constructed: returned by
\* Parse, or by Build() when a builder was taken from it
Constructed == called = "Parse" /\ ~isNil /\ builder \in {"nil", "built"}

\* u.Builder(), before the URI is shared
CallBuilderBeforeSharing == accesses = NoAccesses /\ CallBuilder

\* the goroutine g makes its call: the accesses to the fields are recorded
Access(g, as) == accesses[g] = {} /\ accesses' = [accesses EXCEPT ![g] = as]

\* u.Scheme(), u.Query(), u.Fragment() by the goroutine g: the field is
\* read, and returned (Query returns the values url.ParseQuery reads in it)
CallGetter(g, field, value) ==
    /\ Constructed
    /\ Access(g, ReadOf({field}))
    /\ ret' = [set |-> TRUE, v |-> value]
    /\ UNCHANGED <<raw, called, isNil, u, err, out, nValidate, verr, usesDNS,
                 builder, reported>>

CallSchemeBy(g) == CallGetter(g, "scheme", u.scheme)
CallQueryBy(g) == CallGetter(g, "query", u.query)
CallFragmentBy(g) == CallGetter(g, "fragment", u.fragment)

\* what ensureAuthorityExists reads, and writes when there is an authority
ensureAuthorityExistsAccesses(x) ==
    ReadOf({"userinfo", "host", "port"})
    \cup (IF x.authority.userinfo # <<>> \/ x.authority.host # <<>> \/ x.authority.port # <<>>
          THEN WriteOf({"prefix"}) ELSE {})

\* u.Authority() by the goroutine g
CallAuthorityBy(g) ==
    /\ Constructed
    /\ Access(g, ensureAuthorityExistsAccesses(u))
    /\ u' = ensureAuthorityExists(u)
    /\ UNCHANGED <<raw, called, isNil, err, out, nValidate, verr, usesDNS,
                 builder, reported, ret>>

\* u.String() by the goroutine g: authorityInfo.String has a value receiver
CallStringBy(g) ==
    /\ Constructed
    /\ Access(g, ReadOf({"scheme", "query", "fragment"} \cup AuthorityFields))
    /\ out' = [set |-> TRUE, s |-> String(u)]
    /\ UNCHANGED <<raw, called, isNil, u, err, nValidate, verr, usesDNS,
                 builder, reported, ret>>

\* what Validate accesses: the authority is copied and the ip type stored
\* when there is a hier-part and nothing fails
ValidateAccesses(x, v) ==
    ReadOf({"scheme", "query", "fragment"})
    \cup (IF validateSchemeQueryFragment(x) = Nil
          THEN ReadOf({"hierPart"}) \cup (IF x.hierPart # <<>> THEN ReadOf(AuthorityFields) ELSE {})
          ELSE {})
    \cup (IF v.err = Nil /\ x.hierPart # <<>> THEN WriteOf({"ipType"}) ELSE {})

\* u.Validate() by the goroutine g
CallValidateBy(g) ==
    /\ Constructed
    /\ \E v \in {Validate(u)} :
        /\ Access(g, ValidateAccesses(u, v))
        /\ u' = v.uri
        /\ verr' = v.err
    /\ nValidate' = nValidate + 1
    /\ UNCHANGED <<raw, called, isNil, err, out, usesDNS, builder, reported, ret>>

\* u.IsDefaultPort() by the goroutine g: the receiver is a copy of the URI
CallIsDefaultPortBy(g) ==
    /\ Constructed
    /\ Access(g, ReadOf(Fields))
    /\ ret' = [set |-> TRUE, v |-> IsDefaultPort(u)]
    /\ UNCHANGED <<raw, called, isNil, u, err, out, nValidate, verr, usesDNS,
                 builder, reported>>

CallScheme == \E g \in Goroutines : CallSchemeBy(g)
CallQuery == \E g \in Goroutines : CallQueryBy(g)
CallFragment == \E g \in Goroutines : CallFragmentBy(g)
CallAuthorityShared == \E g \in Goroutines : CallAuthorityBy(g)
CallStringShared == \E g \in Goroutines : CallStringBy(g)
CallValidateShared == \E g \in Goroutines : CallValidateBy(g)
CallIsDefaultPortShared == \E g \in Goroutines : CallIsDefaultPortBy(g)

NextShared ==
    \/ CallParse
    \/ CallBuilderBeforeSharing
    \/ CallSetHost
    \/ CallBuild
    \/ CallScheme
    \/ CallQuery
    \/ CallFragment
    \/ CallAuthorityShared
    \/ CallStringShared
    \/ CallValidateShared
    \/ CallIsDefaultPortShared

SpecShared == InitShared /\ [][NextShared]_vars

\* two goroutines access one field, one of them writing it, with nothing
\* that orders the two calls
DataRace ==
    \E g1, g2 \in Goroutines :
        /\ g1 # g2
        /\ \E a1 \in accesses[g1], a2 \in accesses[g2] :
              a1.field = a2.field /\ "write" \in {a1.kind, a2.kind}

\* C23: a URI has no interior mutation after construction: the read-side
\* methods Scheme(), Authority(), Query(), Fragment(), String(), Validate()
\* and IsDefaultPort() write to no field of the URI, so that goroutines may
\* call them on one shared URI without a data race.
C23_NoInteriorMutation ==
    /\ \A g \in Goroutines : \A a \in accesses[g] : a.kind # "write"
    /\ ~DataRace

====
